---- MODULE Spec2Model ----
(***************************************************************************)
(* Resource cache and loader of the portfolio site (core module):          *)
(* a two-tier cache (memoryCache Map + localStorage) with TTL expiry and a  *)
(* version-namespaced persistent key, and the loaders loadJSON and          *)
(* loadMarkdown that serve from it or fall back to fetch.                   *)
(*                                                                         *)
(* Strings whose content matters (resource keys, version strings, storage  *)
(* keys, response bodies, JSON text) are sequences of one-character        *)
(* strings, so concatenation, prefix tests and JSON quoting are computed.  *)
(***************************************************************************)
EXTENDS Integers, Sequences, FiniteSets, Bags, TLC

VARIABLES
    memoryCache,   \* the Map of the page: key -> [data, timestamp]
    localStorage,  \* storage key -> stored string
    now,           \* Date.now()
    inflight,      \* bag of the load calls suspended at an await
    version,       \* the CACHE_VERSION of the script the page runs
    last,          \* observation: the operation of the last step and its result
    writtenUnder,  \* history: storage key -> the version and resource key of
                   \* the setCachedData call that wrote the record
    lastSet,       \* history: resource key -> the last setCachedData call on it
    trace,         \* history: the start times of the suspended loads, and what
                   \* the last step found in the Map and from which load it came
    renderer,      \* the page renderer of the page: where it stands, what
                   \* loadJSON returned to it, what it has rendered
    peer,          \* a second page open on the same localStorage: its Map and
                   \* its suspended loads; history: which page stored last
    lightbox,      \* the screenshot gallery and lightbox of the projects page,
                   \* with the keydown listeners of the document
    lab,           \* the experiment modals of the lab page and their listeners
    ping,          \* sessionStorage of the tab and the requests to /api/ping
    history        \* history: the setCachedData calls of the last CACHE_TTL and
                   \* the values the responses were decoded to

\* the cache, the loads and their observation
cacheVars == <<memoryCache, localStorage, now, inflight, version, last, writtenUnder, lastSet>>

\* what only some specifications follow
pageVars == <<trace, renderer, peer, lightbox, lab, ping, history>>

\* pageVars without trace, without renderer, without peer
exceptTrace == <<renderer, peer, lightbox, lab, ping, history>>

exceptRenderer == <<trace, peer, lightbox, lab, ping, history>>

exceptPeer == <<trace, renderer, lightbox, lab, ping, history>>

\* pageVars without renderer and lightbox
exceptProjects == <<trace, peer, lab, ping, history>>

\* pageVars without renderer and lab
exceptLab == <<trace, peer, lightbox, ping, history>>

\* pageVars without history
exceptHistory == <<trace, renderer, peer, lightbox, lab, ping>>

\* pageVars without renderer and ping
exceptPing == <<trace, peer, lightbox, lab, history>>

vars == <<memoryCache, localStorage, now, inflight, version, last, writtenUnder, lastSet,
          trace, renderer, peer, lightbox, lab, ping, history>>

----------------------------------------------------------------------------
(* Program constants *)

CACHE_VERSION == <<"v", "1">>

CACHE_TTL == 5 * 60 * 1000

PREFIX == <<"p", "o", "r", "t", "f", "o", "l", "i", "o", "_">>

----------------------------------------------------------------------------
(* Bounds of the model *)

\* the clock advances in steps of CACHE_TTL / StepsPerTTL milliseconds
StepsPerTTL == 2

\* the clock stops after MaxSteps steps
MaxSteps == 3

\* number of load calls that may be suspended at the same time
MaxInFlight == 2

TickUnit == CACHE_TTL \div StepsPerTTL

\* resource keys (paths) passed to the loaders
Keys == { <<"a">>, <<"x", "_", "a">> }

\* the key used where the persistent store may fail
FaultKeys == { <<"a">> }

\* values of CACHE_VERSION over the deployments of the site
Versions == { CACHE_VERSION, <<"v", "1", "_", "x">> }

\* outcomes of a localStorage call: TRUE = it throws
Faulty == BOOLEAN

Reliable == {FALSE}

\* response bodies the transport may deliver
Bodies == { <<"1">>, <<>> }

\* a key of some other script in the same localStorage
ForeignKey == <<"t">>

----------------------------------------------------------------------------
(* JavaScript values: a type tag and a text (the content of a string, the  *)
(* JSON text of anything else).                                            *)

NullValue == [type |-> "null", text |-> <<"n", "u", "l", "l">>]

Digits == {"0", "1", "2", "3", "4", "5", "6", "7", "8", "9"}

\* JavaScript truthiness, as tested by `if (cached)` and `if (stored)`
Truthy(v) ==
    CASE v.type = "null" -> FALSE
      [] v.type = "boolean" -> v.text = <<"t", "r", "u", "e">>
      [] v.type = "number" -> v.text # <<"0">>
      [] v.type = "string" -> v.text # <<>>
      [] OTHER -> TRUE

IsNumberText(s) ==
    /\ Len(s) >= 1
    /\ \A i \in 1..Len(s) : s[i] \in Digits
    /\ (Len(s) = 1 \/ s[1] # "0")

IsQuotedText(s) ==
    /\ Len(s) >= 2
    /\ s[1] = "\""
    /\ s[Len(s)] = "\""
    /\ \A i \in 2..(Len(s) - 1) : s[i] \notin {"\"", "\\"}

\* the text of an array of one-digit numbers: [d,d,...,d]
IsArrayText(s) ==
    /\ Len(s) >= 3
    /\ Len(s) % 2 = 1
    /\ s[1] = "["
    /\ s[Len(s)] = "]"
    /\ \A i \in 2..(Len(s) - 1) : IF i % 2 = 0 THEN s[i] \in Digits ELSE s[i] = ","

\* the elements of the array with text s, and the text of the array of es
Elements(s) == [i \in 1..((Len(s) - 1) \div 2) |-> s[2 * i]]

ArrayText(es) ==
    [i \in 1..(2 * Len(es) + 1) |->
        IF i = 1 THEN "["
        ELSE IF i = 2 * Len(es) + 1 THEN "]"
        ELSE IF i % 2 = 0 THEN es[i \div 2] ELSE ","]

DigitValue(c) ==
    CHOOSE n \in 0..9 : <<"0", "1", "2", "3", "4", "5", "6", "7", "8", "9">>[n + 1] = c

\* es.sort((a, b) => b - a): descending and stable; e is put into the
\* sorted es behind the elements that are not smaller
RECURSIVE Inserted(_, _)
Inserted(es, e) ==
    IF es = <<>> THEN <<e>>
    ELSE IF DigitValue(es[1]) >= DigitValue(e) THEN <<es[1]>> \o Inserted(Tail(es), e)
    ELSE <<e>> \o es

RECURSIVE SortedDescending(_)
SortedDescending(es) ==
    IF es = <<>> THEN <<>>
    ELSE Inserted(SortedDescending(SubSeq(es, 1, Len(es) - 1)), es[Len(es)])

\* JSON.parse / response.json() on a text: ok = FALSE is a SyntaxError
JSONParse(s) ==
    IF IsNumberText(s) THEN [ok |-> TRUE, value |-> [type |-> "number", text |-> s]]
    ELSE IF s = <<"n", "u", "l", "l">> THEN [ok |-> TRUE, value |-> NullValue]
    ELSE IF s \in {<<"t", "r", "u", "e">>, <<"f", "a", "l", "s", "e">>}
         THEN [ok |-> TRUE, value |-> [type |-> "boolean", text |-> s]]
    ELSE IF IsQuotedText(s)
         THEN [ok |-> TRUE, value |-> [type |-> "string", text |-> SubSeq(s, 2, Len(s) - 1)]]
    ELSE IF s \in {<<"{", "}">>, <<"[", "]">>} \/ IsArrayText(s)
         THEN [ok |-> TRUE, value |-> [type |-> "object", text |-> s]]
    ELSE [ok |-> FALSE, value |-> NullValue]

\* JSON.stringify of a value (texts here hold no quote or backslash)
JSONStringify(v) ==
    IF v.type = "string" THEN <<"\"">> \o v.text \o <<"\"">> ELSE v.text

\* response.text(): the body as a string value
TextValue(body) == [type |-> "string", text |-> body]

----------------------------------------------------------------------------
(* The two tiers *)

\* Map.set / localStorage.setItem
Put(f, k, v) == [x \in (DOMAIN f) \cup {k} |-> IF x = k THEN v ELSE f[x]]

\* Map.delete / localStorage.removeItem
Remove(f, k) == [x \in (DOMAIN f) \ {k} |-> f[x]]

EmptyMap == [x \in {} |-> NullValue]

\* the storage key, changed: the path is reduced to its last segment (what
\* follows the last "_" here) before it is used
StorageKey_normalised(ver, key) ==
    LET cuts == {i \in 1..Len(key) : key[i] = "_"}
        from == IF cuts = {} THEN 1
                ELSE 1 + CHOOSE i \in cuts : \A j \in cuts : j <= i
    IN  PREFIX \o ver \o <<"_">> \o SubSeq(key, from, Len(key))

\* `portfolio_${CACHE_VERSION}_${key}`
StorageKey(ver, key) == PREFIX \o ver \o <<"_">> \o key

\* key.startsWith('portfolio_')
StartsWith(s, p) == Len(s) >= Len(p) /\ SubSeq(s, 1, Len(p)) = p

\* JSON.stringify({ data, timestamp }): the stored string, kept as its two
\* members, the data member as JSON text
Serialize(data, timestamp) == [data |-> JSONStringify(data), timestamp |-> timestamp]

\* const { data, timestamp } = JSON.parse(stored)
ParseStored(stored) ==
    LET p == JSONParse(stored.data)
    IN  [ok |-> p.ok, data |-> p.value, timestamp |-> stored.timestamp]

\* getCachedData, changed: an entry exactly CACHE_TTL old still counts as live
getCachedData_lenient(key, mem, ls, ver, t, getThrows, removeThrows) ==
    LET memLive == key \in DOMAIN mem /\ t - mem[key].timestamp <= CACHE_TTL
        mem1 == IF key \in DOMAIN mem THEN Remove(mem, key) ELSE mem
        skey == StorageKey(ver, key)
        miss(c) == [ret |-> NullValue, src |-> "none", mem |-> mem1, ls |-> ls,
                    caught |-> c, threw |-> FALSE]
    IN  IF memLive
        THEN [ret |-> mem[key].data, src |-> "memory", mem |-> mem, ls |-> ls,
              caught |-> FALSE, threw |-> FALSE]
        ELSE IF getThrows THEN miss(TRUE)
        ELSE IF skey \notin DOMAIN ls THEN miss(FALSE)
        ELSE LET rec == ParseStored(ls[skey])
             IN  IF ~rec.ok THEN miss(TRUE)
                 ELSE IF t - rec.timestamp <= CACHE_TTL
                 THEN [ret |-> rec.data, src |-> "storage",
                       mem |-> Put(mem1, key, [data |-> rec.data, timestamp |-> rec.timestamp]),
                       ls |-> ls, caught |-> FALSE, threw |-> FALSE]
                 ELSE IF removeThrows THEN miss(TRUE)
                 ELSE [ret |-> NullValue, src |-> "none", mem |-> mem1,
                       ls |-> Remove(ls, skey), caught |-> FALSE, threw |-> FALSE]

\* getCachedData, changed: a localStorage hit is not put back into the Map
getCachedData_noRestore(key, mem, ls, ver, t, getThrows, removeThrows) ==
    LET memLive == key \in DOMAIN mem /\ t - mem[key].timestamp < CACHE_TTL
        mem1 == IF key \in DOMAIN mem THEN Remove(mem, key) ELSE mem
        skey == StorageKey(ver, key)
        miss(c) == [ret |-> NullValue, src |-> "none", mem |-> mem1, ls |-> ls,
                    caught |-> c, threw |-> FALSE]
    IN  IF memLive
        THEN [ret |-> mem[key].data, src |-> "memory", mem |-> mem, ls |-> ls,
              caught |-> FALSE, threw |-> FALSE]
        ELSE IF getThrows THEN miss(TRUE)
        ELSE IF skey \notin DOMAIN ls THEN miss(FALSE)
        ELSE LET rec == ParseStored(ls[skey])
             IN  IF ~rec.ok THEN miss(TRUE)
                 ELSE IF t - rec.timestamp < CACHE_TTL
                 THEN [ret |-> rec.data, src |-> "storage",
                       mem |-> mem1,
                       ls |-> ls, caught |-> FALSE, threw |-> FALSE]
                 ELSE IF removeThrows THEN miss(TRUE)
                 ELSE [ret |-> NullValue, src |-> "none", mem |-> mem1,
                       ls |-> Remove(ls, skey), caught |-> FALSE, threw |-> FALSE]

\* getCachedData, changed: no try around the localStorage calls
getCachedData_uncaught(key, mem, ls, ver, t, getThrows, removeThrows) ==
    LET memLive == key \in DOMAIN mem /\ t - mem[key].timestamp < CACHE_TTL
        mem1 == IF key \in DOMAIN mem THEN Remove(mem, key) ELSE mem
        skey == StorageKey(ver, key)
        miss(c) == [ret |-> NullValue, src |-> "none", mem |-> mem1, ls |-> ls,
                    caught |-> c, threw |-> FALSE]
    IN  IF memLive
        THEN [ret |-> mem[key].data, src |-> "memory", mem |-> mem, ls |-> ls,
              caught |-> FALSE, threw |-> FALSE]
        ELSE IF getThrows THEN [miss(FALSE) EXCEPT !.threw = TRUE]
        ELSE IF skey \notin DOMAIN ls THEN miss(FALSE)
        ELSE LET rec == ParseStored(ls[skey])
             IN  IF ~rec.ok THEN miss(TRUE)
                 ELSE IF t - rec.timestamp < CACHE_TTL
                 THEN [ret |-> rec.data, src |-> "storage",
                       mem |-> Put(mem1, key, [data |-> rec.data, timestamp |-> rec.timestamp]),
                       ls |-> ls, caught |-> FALSE, threw |-> FALSE]
                 ELSE IF removeThrows THEN miss(TRUE)
                 ELSE [ret |-> NullValue, src |-> "none", mem |-> mem1,
                       ls |-> Remove(ls, skey), caught |-> FALSE, threw |-> FALSE]

\* getCachedData, changed: localStorage is consulted before the Map
getCachedData_storageFirst(key, mem, ls, ver, t, getThrows, removeThrows) ==
    LET memLive == key \in DOMAIN mem /\ t - mem[key].timestamp < CACHE_TTL
        skey == StorageKey(ver, key)
        fromMem == IF memLive
                   THEN [ret |-> mem[key].data, src |-> "memory", mem |-> mem, ls |-> ls,
                         caught |-> FALSE, threw |-> FALSE]
                   ELSE [ret |-> NullValue, src |-> "none",
                         mem |-> IF key \in DOMAIN mem THEN Remove(mem, key) ELSE mem,
                         ls |-> ls, caught |-> FALSE, threw |-> FALSE]
    IN  IF getThrows \/ skey \notin DOMAIN ls THEN fromMem
        ELSE LET rec == ParseStored(ls[skey])
             IN  IF rec.ok /\ t - rec.timestamp < CACHE_TTL
                 THEN [ret |-> rec.data, src |-> "storage",
                       mem |-> Put(mem, key, [data |-> rec.data, timestamp |-> rec.timestamp]),
                       ls |-> ls, caught |-> FALSE, threw |-> FALSE]
                 ELSE fromMem

\* getCachedData, changed: a record that JSON.parse rejects is removed
getCachedData_evictsCorrupt(key, mem, ls, ver, t, getThrows, removeThrows) ==
    LET memLive == key \in DOMAIN mem /\ t - mem[key].timestamp < CACHE_TTL
        mem1 == IF key \in DOMAIN mem THEN Remove(mem, key) ELSE mem
        skey == StorageKey(ver, key)
        miss(c) == [ret |-> NullValue, src |-> "none", mem |-> mem1, ls |-> ls,
                    caught |-> c, threw |-> FALSE]
    IN  IF memLive
        THEN [ret |-> mem[key].data, src |-> "memory", mem |-> mem, ls |-> ls,
              caught |-> FALSE, threw |-> FALSE]
        ELSE IF getThrows THEN miss(TRUE)
        ELSE IF skey \notin DOMAIN ls THEN miss(FALSE)
        ELSE LET rec == ParseStored(ls[skey])
             IN  IF ~rec.ok THEN [miss(TRUE) EXCEPT !.ls = Remove(ls, skey)]
                 ELSE IF t - rec.timestamp < CACHE_TTL
                 THEN [ret |-> rec.data, src |-> "storage",
                       mem |-> Put(mem1, key, [data |-> rec.data, timestamp |-> rec.timestamp]),
                       ls |-> ls, caught |-> FALSE, threw |-> FALSE]
                 ELSE IF removeThrows THEN miss(TRUE)
                 ELSE [ret |-> NullValue, src |-> "none", mem |-> mem1,
                       ls |-> Remove(ls, skey), caught |-> FALSE, threw |-> FALSE]

\* getCachedData, changed: every call first drops all expired Map entries
getCachedData_sweeps(key, mem, ls, ver, t, getThrows, removeThrows) ==
    LET swept == [x \in {y \in DOMAIN mem : t - mem[y].timestamp < CACHE_TTL} |-> mem[x]]
        memLive == key \in DOMAIN swept
        skey == StorageKey(ver, key)
        miss(c) == [ret |-> NullValue, src |-> "none", mem |-> swept, ls |-> ls,
                    caught |-> c, threw |-> FALSE]
    IN  IF memLive
        THEN [ret |-> swept[key].data, src |-> "memory", mem |-> swept, ls |-> ls,
              caught |-> FALSE, threw |-> FALSE]
        ELSE IF getThrows THEN miss(TRUE)
        ELSE IF skey \notin DOMAIN ls THEN miss(FALSE)
        ELSE LET rec == ParseStored(ls[skey])
             IN  IF ~rec.ok THEN miss(TRUE)
                 ELSE IF t - rec.timestamp < CACHE_TTL
                 THEN [ret |-> rec.data, src |-> "storage",
                       mem |-> Put(swept, key, [data |-> rec.data, timestamp |-> rec.timestamp]),
                       ls |-> ls, caught |-> FALSE, threw |-> FALSE]
                 ELSE IF removeThrows THEN miss(TRUE)
                 ELSE [ret |-> NullValue, src |-> "none", mem |-> swept,
                       ls |-> Remove(ls, skey), caught |-> FALSE, threw |-> FALSE]

\* getCachedData, changed: an entry restored from localStorage gets the time
\* of the read
getCachedData_restamps(key, mem, ls, ver, t, getThrows, removeThrows) ==
    LET memLive == key \in DOMAIN mem /\ t - mem[key].timestamp < CACHE_TTL
        mem1 == IF key \in DOMAIN mem THEN Remove(mem, key) ELSE mem
        skey == StorageKey(ver, key)
        miss(c) == [ret |-> NullValue, src |-> "none", mem |-> mem1, ls |-> ls,
                    caught |-> c, threw |-> FALSE]
    IN  IF memLive
        THEN [ret |-> mem[key].data, src |-> "memory", mem |-> mem, ls |-> ls,
              caught |-> FALSE, threw |-> FALSE]
        ELSE IF getThrows THEN miss(TRUE)
        ELSE IF skey \notin DOMAIN ls THEN miss(FALSE)
        ELSE LET rec == ParseStored(ls[skey])
             IN  IF ~rec.ok THEN miss(TRUE)
                 ELSE IF t - rec.timestamp < CACHE_TTL
                 THEN [ret |-> rec.data, src |-> "storage",
                       mem |-> Put(mem1, key, [data |-> rec.data, timestamp |-> t]),
                       ls |-> ls, caught |-> FALSE, threw |-> FALSE]
                 ELSE IF removeThrows THEN miss(TRUE)
                 ELSE [ret |-> NullValue, src |-> "none", mem |-> mem1,
                       ls |-> Remove(ls, skey), caught |-> FALSE, threw |-> FALSE]

\* getCachedData(key) at time t; getThrows / removeThrows: the localStorage
\* call throws.  Result: the returned value, the tier it came from, the two
\* tiers afterwards, whether an exception was caught inside and whether one
\* escaped to the caller.
getCachedData(key, mem, ls, ver, t, getThrows, removeThrows) ==
    LET memLive == key \in DOMAIN mem /\ t - mem[key].timestamp < CACHE_TTL
        mem1 == IF key \in DOMAIN mem THEN Remove(mem, key) ELSE mem
        skey == StorageKey(ver, key)
        miss(c) == [ret |-> NullValue, src |-> "none", mem |-> mem1, ls |-> ls,
                    caught |-> c, threw |-> FALSE]
    IN  IF memLive
        THEN [ret |-> mem[key].data, src |-> "memory", mem |-> mem, ls |-> ls,
              caught |-> FALSE, threw |-> FALSE]
        ELSE IF getThrows THEN miss(TRUE)
        ELSE IF skey \notin DOMAIN ls THEN miss(FALSE)
        ELSE LET rec == ParseStored(ls[skey])
             IN  IF ~rec.ok THEN miss(TRUE)
                 ELSE IF t - rec.timestamp < CACHE_TTL
                 THEN [ret |-> rec.data, src |-> "storage",
                       mem |-> Put(mem1, key, [data |-> rec.data, timestamp |-> rec.timestamp]),
                       ls |-> ls, caught |-> FALSE, threw |-> FALSE]
                 ELSE IF removeThrows THEN miss(TRUE)
                 ELSE [ret |-> NullValue, src |-> "none", mem |-> mem1,
                       ls |-> Remove(ls, skey), caught |-> FALSE, threw |-> FALSE]

\* setCachedData, changed: localStorage is written first, the Map only after
\* the write went through
setCachedData_persistFirst(key, data, mem, ls, ver, t, setThrows) ==
    [mem |-> IF setThrows THEN mem ELSE Put(mem, key, [data |-> data, timestamp |-> t]),
     ls |-> IF setThrows THEN ls ELSE Put(ls, StorageKey(ver, key), Serialize(data, t)),
     caught |-> setThrows, threw |-> FALSE]

\* setCachedData, changed: an entry that exists keeps its timestamp
setCachedData_keepsStamp(key, data, mem, ls, ver, t, setThrows) ==
    LET stamp == IF key \in DOMAIN mem THEN mem[key].timestamp ELSE t
    IN  [mem |-> Put(mem, key, [data |-> data, timestamp |-> stamp]),
         ls |-> IF setThrows THEN ls
                ELSE Put(ls, StorageKey(ver, key), Serialize(data, stamp)),
         caught |-> setThrows, threw |-> FALSE]

\* setCachedData, changed: a record already in localStorage is left alone
setCachedData_firstWins(key, data, mem, ls, ver, t, setThrows) ==
    [mem |-> Put(mem, key, [data |-> data, timestamp |-> t]),
     ls |-> IF setThrows \/ StorageKey(ver, key) \in DOMAIN ls THEN ls
            ELSE Put(ls, StorageKey(ver, key), Serialize(data, t)),
     caught |-> setThrows, threw |-> FALSE]

\* setCachedData(key, data) at time t; setThrows: localStorage.setItem throws
setCachedData(key, data, mem, ls, ver, t, setThrows) ==
    [mem |-> Put(mem, key, [data |-> data, timestamp |-> t]),
     ls |-> IF setThrows THEN ls ELSE Put(ls, StorageKey(ver, key), Serialize(data, t)),
     caught |-> setThrows, threw |-> FALSE]

\* the keys to remove, changed: only those of the current CACHE_VERSION
Prefixed_currentVersion(ls) ==
    {k \in DOMAIN ls : StartsWith(k, PREFIX \o version \o <<"_">>)}

\* the keys clearCache is to remove
Prefixed(ls) ==
    {k \in DOMAIN ls : StartsWith(k, PREFIX)}

\* clearCache, changed: the Map is not cleared
clearCacheResult_keepsMemory(mem, ls, removed) ==
    [mem |-> mem, ls |-> [x \in (DOMAIN ls) \ removed |-> ls[x]],
     caught |-> removed # Prefixed(ls), threw |-> FALSE]

\* clearCache(): `removed` is the set of keys removed before Object.keys or a
\* removeItem threw (all the prefixed keys when nothing throws)
clearCacheResult(mem, ls, removed) ==
    [mem |-> EmptyMap, ls |-> [x \in (DOMAIN ls) \ removed |-> ls[x]],
     caught |-> removed # Prefixed(ls), threw |-> FALSE]

----------------------------------------------------------------------------
(* Observation of the last step: the operation, its key, what              *)
(* getCachedData returned inside it (got) and from which tier (src), what  *)
(* the operation returned (ret), whether a localStorage exception was      *)
(* caught inside (caught) and whether one escaped to the caller (threw).   *)
(*   op = "hit"   a load call returned the cached value                    *)
(*   op = "miss"  a load call found nothing and called fetch               *)
(*   op = "done"  a suspended load stored the fetched value and returned it*)
(*   op = "fail"  a suspended load took its catch branch and returned null *)

Event(op, key, got, src, ret, caught, threw) ==
    [op |-> op, key |-> key, got |-> got, src |-> src, ret |-> ret,
     caught |-> caught, threw |-> threw]

NoEvent(op) == Event(op, <<>>, NullValue, "none", NullValue, FALSE, FALSE)

(* History of the setCachedData calls, per resource key.  While the last    *)
(* call is less than CACHE_TTL old: its value and time, whether             *)
(* localStorage accepted its write, whether the page that made it is still  *)
(* the current one (resident), whether it came after the previous entry of  *)
(* the key had expired (refetch).  Afterwards only that it has expired, and *)
(* after a clearCache only that the cache was cleared.                      *)
SetRecord(data, t, accepted, refetch) ==
    [state |-> "set", data |-> data, timestamp |-> t, accepted |-> accepted,
     resident |-> TRUE, refetch |-> refetch]

Forgotten(state) ==
    [state |-> state, data |-> NullValue, timestamp |-> 0, accepted |-> FALSE,
     resident |-> FALSE, refetch |-> FALSE]

AfterSet(h, key, data, t, accepted) ==
    Put(h, key, SetRecord(data, t, accepted, key \in DOMAIN h /\ h[key].state = "expired"))

AfterClear(h) == [k \in DOMAIN h |-> Forgotten("cleared")]

AfterUnload(h) == [k \in DOMAIN h |-> [h[k] EXCEPT !.resident = FALSE]]

AfterTick(h, t) ==
    [k \in DOMAIN h |->
        IF h[k].state = "set" /\ t - h[k].timestamp >= CACHE_TTL
        THEN Forgotten("expired") ELSE h[k]]

\* no page renderer has run: no page is loaded.  pc: where the init function
\* stands; got: what loadJSON returned to it (none yet: the empty sequence);
\* rendered: it has written the markup of its section; handlers: it has run
\* the code that registers the handlers of its section; outcome: it returned,
\* or an exception ended it.  side: the same for renderSidebar.
NoSide ==
    [pc |-> "idle", skills |-> <<>>, profile |-> <<>>, rendered |-> FALSE, outcome |-> "none"]

NoPage ==
    [page |-> "none", pc |-> "idle", got |-> <<>>, rendered |-> FALSE, handlers |-> FALSE,
     outcome |-> "none", side |-> NoSide]

\* Two pages on one localStorage.  The page whose steps are being taken has
\* its Map and its suspended loads in memoryCache and inflight; mem and
\* inflight here are those of the other page.  focus: which of the two pages
\* (1, 2) is the one taking steps.  History: setters, for a key, the pages
\* that made the last two setCachedData calls on it (the last one last).
NoPeer == [mem |-> EmptyMap, inflight |-> EmptyBag, focus |-> 1, setters |-> EmptyMap]

\* A projects page on which no project has been selected.  view: the number
\* of times renderProjectDetail has written the detail view; every time the
\* gallery, the lightbox and its buttons are new elements, and those of the
\* view before leave the document.  hasLightbox: the view in the document has
\* them (the project has screenshots).  probing: the loadScreenshots calls
\* suspended at their image probes, each with the view whose gallery and
\* lightbox it took and the number of images it will find.  closures: one per
\* loadScreenshots call that found images, in the order of their
\* document.addEventListener('keydown', handleKeydown); each is the scope of
\* that call: id (its view), foundImages.length, currentImageIndex, and of
\* its lightbox: hidden (the class 'hidden') and src (the index of the image
\* shown, none: the empty sequence).  buttons: the calls whose click
\* listeners are on the lightbox buttons of the view in the document.
\* counter: the text of #lightbox-counter.  pressed: the key pressed in the
\* last step ("none" when the last step was no key press).
NoLightbox ==
    [view |-> 0, hasLightbox |-> FALSE, probing |-> EmptyBag, closures |-> <<>>,
     buttons |-> <<>>, counter |-> <<>>, pressed |-> "none"]

\* The lab page with no experiment modal.  modals: the #experiment-modal
\* elements attached to the body, in document order, each with the id of the
\* openExperimentModal call that made it and, in closes, the calls whose
\* closeModal is a click listener of its #close-modal button.  keydown: the
\* calls whose keydown listener is registered on the document, in the order
\* of registration.  overflow: document.body.style.overflow.  made: the
\* modals made so far.  pressed: the key pressed in the last step ("none"
\* when the last step was no key press).
NoLab ==
    [modals |-> <<>>, keydown |-> <<>>, overflow |-> "", made |-> 0, pressed |-> "none"]

\* A new tab.  tracked: what sessionStorage.getItem('ping_tracked') returns
\* (null: the item is not there).  sent, failed: the requests to /api/ping
\* sent in this session and those of them that failed; clicks: the clicks on
\* the ping button; outcome: what trackPing did in the last click ("sent",
\* "skipped": it returned at its test, "threw": a sessionStorage call threw).
NoPing ==
    [tracked |-> NullValue, sent |-> 0, failed |-> 0, clicks |-> 0, outcome |-> "none"]

\* History of the cache.  sets: the setCachedData calls that are less than
\* CACHE_TTL old, each with its key, its value and its time.  decoded: for
\* every response that was ok and whose body was decoded, the key of the load
\* and the value.
NoHistory ==
    [sets |-> {}, decoded |-> {}, storedBy |-> EmptyMap, called |-> "none", removed |-> {},
     afterClear |-> "none", survived |-> {}]

\* History of the loads of one page.  starts: the suspended loads in the order
\* of their calls, each with the time of its call.  writer: for a key in the
\* Map, the time of the call of the load whose setCachedData wrote the entry.
\* And of the last step, when a load stored its value in it: before, the
\* entry the Map held for the key until then (none: the empty sequence);
\* beforeStart, the time of the call of the load that had written that entry;
\* started, the time of the call of the load that stored.
NoTrace ==
    [starts |-> <<>>, writer |-> EmptyMap, before |-> <<>>, beforeStart |-> 0, started |-> 0]

Init ==
    /\ memoryCache = EmptyMap
    /\ localStorage = Put(EmptyMap, ForeignKey, [data |-> <<"d">>, timestamp |-> 0])
    /\ now = 0
    /\ inflight = EmptyBag
    /\ version = CACHE_VERSION
    /\ last = NoEvent("init")
    /\ writtenUnder = EmptyMap
    /\ lastSet = EmptyMap
    /\ trace = NoTrace
    /\ renderer = NoPage
    /\ peer = NoPeer
    /\ lightbox = NoLightbox
    /\ lab = NoLab
    /\ ping = NoPing
    /\ history = NoHistory

\* the clock, changed: the suspended loads are given up as time passes
Tick_timesOut ==
    /\ now + TickUnit <= MaxSteps * TickUnit
    /\ now' = now + TickUnit
    /\ last' = NoEvent("tick")
    /\ lastSet' = AfterTick(lastSet, now')
    /\ inflight' = EmptyBag
    /\ UNCHANGED <<memoryCache, localStorage, version, writtenUnder>>

\* Date.now() advances
Tick ==
    /\ now + TickUnit <= MaxSteps * TickUnit
    /\ now' = now + TickUnit
    /\ last' = NoEvent("tick")
    /\ lastSet' = AfterTick(lastSet, now')
    /\ UNCHANGED <<memoryCache, localStorage, inflight, version, writtenUnder>>

\* a load call suspended at its awaits (fetch(path), then response.json() /
\* response.text()).  Between the two awaits the loader only tests
\* response.ok and touches neither tier, so a suspended load is one state.
Pending(key, mode) == [key |-> key, mode |-> mode]

One(l) == SetToBag({l})

\* the history follows the records: only keys present in localStorage
Restrict(f, S) == [x \in (DOMAIN f) \cap S |-> f[x]]

\* what the init function of the page does to the value loadJSON returned to
\* it (page "none": a caller that reads the value only): initExperience sorts the array, `experiences.sort(...)`, latest first;
\* the other init functions read the value only
InPlaceBy(page, v) ==
    IF page = "experience" /\ v.type = "object" /\ IsArrayText(v.text)
    THEN [v EXCEPT !.text = ArrayText(SortedDescending(Elements(v.text)))]
    ELSE v

\* A load call by the init function of the page, which may change the value
\* it gets in place: the loader returns the object the Map entry holds (the
\* entry's data on a hit in the Map, the object JSON.parse made and
\* memoryCache.set kept on a hit in localStorage), so the entry changes with it
LoadCallAliased(key, mode, F, page) ==
    \E getThrows \in F, removeThrows \in F :
        LET g == getCachedData(key, memoryCache, localStorage, version, now,
                               getThrows, removeThrows)
        IN  /\ localStorage' = g.ls
            /\ writtenUnder' = Restrict(writtenUnder, DOMAIN g.ls)
            /\ IF g.threw
               THEN /\ last' = Event("hit", key, g.ret, g.src, NullValue, g.caught, TRUE)
                    /\ memoryCache' = g.mem
                    /\ inflight' = inflight
               ELSE IF Truthy(g.ret)
               THEN /\ last' = Event("hit", key, g.ret, g.src, g.ret, g.caught, FALSE)
                    /\ memoryCache' = [g.mem EXCEPT ![key].data = InPlaceBy(page, @)]
                    /\ inflight' = inflight
               ELSE /\ BagCardinality(inflight) < MaxInFlight
                    /\ memoryCache' = g.mem
                    /\ inflight' = inflight (+) One(Pending(key, mode))
                    /\ last' = Event("miss", key, g.ret, g.src, NullValue, g.caught, FALSE)
            /\ UNCHANGED <<now, version, lastSet>>

\* the load call, changed: a miss on a key that already has a suspended load
\* joins that load and makes no call of fetch of its own
LoadCall_deduplicated(key, mode, F) ==
    \E getThrows \in F, removeThrows \in F :
        LET g == getCachedData(key, memoryCache, localStorage, version, now,
                               getThrows, removeThrows)
        IN  /\ memoryCache' = g.mem
            /\ localStorage' = g.ls
            /\ writtenUnder' = Restrict(writtenUnder, DOMAIN g.ls)
            /\ IF Truthy(g.ret)
               THEN /\ last' = Event("hit", key, g.ret, g.src, g.ret, g.caught, FALSE)
                    /\ inflight' = inflight
               ELSE /\ BagCardinality(inflight) < MaxInFlight
                    /\ inflight' = IF \E l \in BagToSet(inflight) : l.key = key
                                   THEN inflight
                                   ELSE inflight (+) One(Pending(key, mode))
                    /\ last' = Event("miss", key, g.ret, g.src, NullValue, g.caught, FALSE)
            /\ UNCHANGED <<now, version, lastSet>>

\* the load call, changed: the cache is keyed by the path and the loader, so
\* what the other loader stored is a miss
LoadCall_keyedByMode(key, mode, F) ==
    IF key \in DOMAIN history.storedBy /\ history.storedBy[key] # mode
    THEN /\ BagCardinality(inflight) < MaxInFlight
         /\ inflight' = inflight (+) One(Pending(key, mode))
         /\ last' = Event("miss", key, NullValue, "none", NullValue, FALSE, FALSE)
         /\ UNCHANGED <<memoryCache, localStorage, writtenUnder, now, version, lastSet>>
    ELSE LoadCallAliased(key, mode, F, "none")

\* loadJSON(path) / loadMarkdown(path), up to the first await: the cache
\* lookup, then either the immediate return or the call of fetch.
\* F: the outcomes the localStorage calls may have.
LoadCall(key, mode, F) ==
    LoadCallAliased(key, mode, F, "none")

loadJSON(key, F) == LoadCall(key, "json", F)

loadMarkdown(key, F) == LoadCall(key, "markdown", F)

\* the catch branch, changed: the failure is cached as null
LoadFails_cachesNull(l) ==
    /\ inflight' = inflight (-) One(l)
    /\ memoryCache' = Put(memoryCache, l.key, [data |-> NullValue, timestamp |-> now])
    /\ last' = Event("fail", l.key, NullValue, "none", NullValue, FALSE, FALSE)
    /\ UNCHANGED <<localStorage, now, version, writtenUnder, lastSet>>

\* the catch branch, changed: the text of the error is cached under the key
LoadFails_storesError(l) ==
    LET s == setCachedData(l.key, TextValue(<<"4", "0", "4">>), memoryCache, localStorage,
                           version, now, FALSE)
    IN  /\ inflight' = inflight (-) One(l)
        /\ memoryCache' = s.mem
        /\ localStorage' = s.ls
        /\ last' = Event("fail", l.key, NullValue, "none", NullValue, FALSE, FALSE)
        /\ UNCHANGED <<now, version, writtenUnder, lastSet>>

\* the catch branch of a loader: log and return null
LoadFails(l) ==
    /\ inflight' = inflight (-) One(l)
    /\ last' = Event("fail", l.key, NullValue, "none", NullValue, FALSE, FALSE)
    /\ UNCHANGED <<memoryCache, localStorage, now, version, writtenUnder, lastSet>>

\* `await fetch(path)` settles with a failure: the promise rejects, or the
\* response is not ok and the loader throws
FetchSettles(l) ==
    /\ l \in BagToSet(inflight)
    /\ LoadFails(l)

\* the decoding, changed: a body that is not JSON gives null instead of an error
Decode_lenient(mode, body) ==
    IF mode = "json"
    THEN [ok |-> TRUE, value |-> JSONParse(body).value]
    ELSE [ok |-> TRUE, value |-> TextValue(body)]

\* the value the loader obtains from the body: response.json() or response.text()
Decode(mode, body) ==
    IF mode = "json" THEN JSONParse(body) ELSE [ok |-> TRUE, value |-> TextValue(body)]

\* the response is ok and `await response.json()` / `await response.text()`
\* settles: reading the body fails, or decoding fails, or the value is stored
\* and returned.  The init function of the page awaits it and may change the
\* value it gets in place: the loader returns the object it gave to
\* setCachedData, which the Map entry holds and which localStorage has as the
\* string made before
BodySettlesAliased(l, F, B, page) ==
    /\ l \in BagToSet(inflight)
    /\ \/ LoadFails(l)
       \/ \E body \in B, setThrows \in F :
            LET d == Decode(l.mode, body)
                s == setCachedData(l.key, d.value, memoryCache, localStorage, version,
                                   now, setThrows)
            IN  IF ~d.ok
                THEN LoadFails(l)
                ELSE /\ memoryCache' = [s.mem EXCEPT ![l.key].data = InPlaceBy(page, @)]
                     /\ localStorage' = s.ls
                     /\ writtenUnder' =
                            IF StorageKey(version, l.key) \in DOMAIN s.ls /\ ~s.caught
                            THEN Put(writtenUnder, StorageKey(version, l.key),
                                     [version |-> version, key |-> l.key])
                            ELSE writtenUnder
                     /\ lastSet' = AfterSet(lastSet, l.key, d.value, now, ~s.caught)
                     /\ inflight' = inflight (-) One(l)
                     /\ last' = IF s.threw
                                THEN Event("fail", l.key, NullValue, "none", NullValue, s.caught, FALSE)
                                ELSE Event("done", l.key, NullValue, "none", d.value, s.caught, FALSE)
                     /\ UNCHANGED <<now, version>>

BodySettlesFrom(l, F, B) ==
    BodySettlesAliased(l, F, B, "none")

BodySettles(l, F) == BodySettlesFrom(l, F, Bodies)

\* clearCache(), changed: the suspended loads are cancelled
clearCache_cancels(F) ==
    \E removed \in SUBSET Prefixed(localStorage) :
        LET c == clearCacheResult(memoryCache, localStorage, removed)
        IN  /\ c.caught \in F
            /\ memoryCache' = c.mem
            /\ localStorage' = c.ls
            /\ writtenUnder' = Restrict(writtenUnder, DOMAIN c.ls)
            /\ lastSet' = AfterClear(lastSet)
            /\ inflight' = EmptyBag
            /\ last' = Event("clear", <<>>, NullValue, "none", NullValue, c.caught, c.threw)
            /\ UNCHANGED <<now, version>>

\* clearCache()
clearCache(F) ==
    \E removed \in SUBSET Prefixed(localStorage) :
        LET c == clearCacheResult(memoryCache, localStorage, removed)
        IN  /\ c.caught \in F
            /\ memoryCache' = c.mem
            /\ localStorage' = c.ls
            /\ writtenUnder' = Restrict(writtenUnder, DOMAIN c.ls)
            /\ lastSet' = AfterClear(lastSet)
            /\ last' = Event("clear", <<>>, NullValue, "none", NullValue, c.caught, c.threw)
            /\ UNCHANGED <<now, inflight, version>>

\* a page navigation or reload: the module is evaluated anew, the Map is
\* empty, the suspended loads of the old page are gone
Navigate ==
    /\ memoryCache' = EmptyMap
    /\ inflight' = EmptyBag
    /\ last' = NoEvent("navigate")
    /\ lastSet' = AfterUnload(lastSet)
    /\ UNCHANGED <<localStorage, now, version, writtenUnder>>

\* a deployment with another CACHE_VERSION, picked up by a page load
Deploy ==
    \E v \in Versions \ {version} :
        /\ version' = v
        /\ memoryCache' = EmptyMap
        /\ inflight' = EmptyBag
        /\ last' = NoEvent("deploy")
        /\ lastSet' = AfterUnload(lastSet)
        /\ UNCHANGED <<localStorage, now, writtenUnder>>

\* a stored string that JSON.parse rejects
Corrupt == [data |-> <<"{">>, timestamp |-> 0]

\* something else than this code leaves an unparsable string under a cache key
ForeignWrite(key) ==
    /\ localStorage' = Put(localStorage, StorageKey(version, key), Corrupt)
    /\ writtenUnder' = Restrict(writtenUnder, (DOMAIN localStorage) \ {StorageKey(version, key)})
    /\ last' = NoEvent("foreign")
    /\ UNCHANGED <<memoryCache, now, inflight, version, lastSet>>

----------------------------------------------------------------------------
(* The loads of one page in the order of their calls *)

\* the sequence without its i-th element
Without(q, i) == SubSeq(q, 1, i - 1) \o SubSeq(q, i + 1, Len(q))

\* nothing was stored in this step
Quiet(h) ==
    [h EXCEPT !.before = <<>>, !.beforeStart = 0, !.started = 0,
              !.writer = Restrict(h.writer, DOMAIN memoryCache')]

\* a load call: on a miss the load is suspended at fetch
TracedCall(key, mode) ==
    trace' = IF last'.op = "miss"
             THEN [Quiet(trace) EXCEPT
                     !.starts = Append(trace.starts, [load |-> Pending(key, mode), at |-> now])]
             ELSE Quiet(trace)

\* the i-th suspended load settles
TracedSettle(l, i) ==
    /\ i \in 1..Len(trace.starts)
    /\ trace.starts[i].load = l
    /\ trace' =
          IF last'.op = "done"
          THEN [starts |-> Without(trace.starts, i),
                writer |-> Put(trace.writer, l.key, trace.starts[i].at),
                before |-> IF l.key \in DOMAIN memoryCache
                           THEN <<memoryCache[l.key]>> ELSE <<>>,
                beforeStart |-> IF l.key \in DOMAIN trace.writer
                                THEN trace.writer[l.key] ELSE 0,
                started |-> trace.starts[i].at]
          ELSE [Quiet(trace) EXCEPT !.starts = Without(trace.starts, i)]

\* a navigation ends the suspended loads
TracedUnload == trace' = NoTrace

----------------------------------------------------------------------------
(* The history of the setCachedData calls *)

\* the setCachedData call of the step is noted, if it made one (a load that
\* stored its value); calls that are CACHE_TTL old are dropped
SetNoted ==
    LET sets == IF last'.op = "done"
                THEN history.sets \cup {[key |-> last'.key, data |-> last'.ret, timestamp |-> now]}
                ELSE history.sets
    IN  history' = [history EXCEPT !.sets = {h \in sets : now' - h.timestamp < CACHE_TTL}]

\* the response of the step is noted, if one was decoded in it
DecodedNoted ==
    history' = IF last'.op = "done"
               THEN [history EXCEPT !.decoded = @ \cup {[key |-> last'.key, value |-> last'.ret]}]
               ELSE history

\* the records of localStorage' under the current version, by resource key
KeysStored == {k \in Keys : StorageKey(version, k) \in DOMAIN localStorage'}

\* a load call of the mode: which of the two loaders was called
CallNoted(mode) ==
    history' = [history EXCEPT !.called = mode,
                               !.storedBy = Restrict(@, DOMAIN @ \cap KeysStored)]

\* the load l settles: when it stored its value, the record is of its mode
SettleNoted(l) ==
    history' = [history EXCEPT
                  !.called = "none",
                  !.storedBy = IF last'.op = "done"
                               THEN Restrict(Put(@, l.key, l.mode),
                                             (DOMAIN @ \cup {l.key}) \cap KeysStored)
                               ELSE Restrict(@, DOMAIN @ \cap KeysStored)]

\* another step: no loader is called and no value stored
NoCallNoted ==
    history' = [history EXCEPT !.called = "none",
                               !.storedBy = Restrict(@, DOMAIN @ \cap KeysStored)]

\* the keys that the step removed from localStorage
RemovedNoted ==
    history' = [history EXCEPT !.removed = (DOMAIN localStorage) \ (DOMAIN localStorage')]

\* clearCache ran: from now on, whether a load was called after it
\* (afterClear: "clean" while none was, then "started"), and the keys stored
\* since by loads that were all called before it
ClearNoted == history' = [history EXCEPT !.afterClear = "clean", !.survived = {}]

\* a load call: a miss starts a load
CallAfterClear ==
    history' = [history EXCEPT !.afterClear = IF last'.op = "miss" /\ @ = "clean"
                                             THEN "started" ELSE @]

\* a suspended load settles
SettleAfterClear ==
    history' = [history EXCEPT !.survived = IF last'.op = "done" /\ history.afterClear = "clean"
                                           THEN @ \cup {last'.key} ELSE @]

----------------------------------------------------------------------------
(* The page renderers: initProjects, initLab, initSkills, initExperience    *)
(* and renderSidebar.  Each awaits loadJSON of its resource, returns when   *)
(* the result is falsy, and otherwise renders from it.                      *)

Pages == {"projects", "lab", "skills", "experience"}

\* the resources: '../data/projects.json', '../data/lab.json',
\* '../data/skills.json', '../data/experience.json', '../data/profile.json'
ProjectsPath == <<"p">>

LabPath == <<"l">>

SkillsPath == <<"s">>

ExperiencePath == <<"e">>

ProfilePath == <<"f">>

PathOf(page) ==
    CASE page = "projects" -> ProjectsPath
      [] page = "lab" -> LabPath
      [] page = "skills" -> SkillsPath
      [] page = "experience" -> ExperiencePath

\* response bodies of the resources: a document, a number, not JSON
Documents == { <<"{", "}">>, <<"1">>, <<>> }

\* the value has members to read: the rendering code reads members and calls
\* methods of the loaded value (projects.filter, experiments.map,
\* skillsData.categories.map, experiences.sort, skills.proficiencyBars.map),
\* which throws a TypeError on a number; a document is taken to have the
\* members its renderer reads
Structured(v) == v.type = "object"

Fresh(page) == [NoPage EXCEPT !.page = page]

\* the init function, changed: no test of the loaded value before rendering
AfterData_unguarded(r, v) ==
    IF ~Structured(v)
    THEN [r EXCEPT !.got = <<v>>, !.pc = "done", !.outcome = "threw"]
    ELSE [r EXCEPT !.got = <<v>>, !.pc = "done", !.outcome = "returned",
                   !.rendered = TRUE, !.handlers = (r.page # "skills"),
                   !.side = IF r.page = "experience"
                            THEN [NoSide EXCEPT !.pc = "called"] ELSE r.side]

\* the init function of the page from the point where loadJSON has returned v
\* to it: `if (!projects) return`, then the rendering; initSkills registers
\* no handler, initExperience calls renderSidebar
AfterData(r, v) ==
    IF ~Truthy(v)
    THEN [r EXCEPT !.got = <<v>>, !.pc = "done", !.outcome = "returned"]
    ELSE IF ~Structured(v)
    THEN [r EXCEPT !.got = <<v>>, !.pc = "done", !.outcome = "threw"]
    ELSE [r EXCEPT !.got = <<v>>, !.pc = "done", !.outcome = "returned",
                   !.rendered = TRUE, !.handlers = (r.page # "skills"),
                   !.side = IF r.page = "experience"
                            THEN [NoSide EXCEPT !.pc = "called"] ELSE r.side]

\* renderSidebar from the point where loadJSON has returned the skills
AfterSkills(r, v) == [r EXCEPT !.side.skills = <<v>>, !.side.pc = "gotSkills"]

\* renderSidebar from the point where loadJSON has returned the profile:
\* `if (!skills || !profile) return`, then the rendering
AfterProfile(r, v) ==
    LET skills == r.side.skills[1]
    IN  IF ~Truthy(skills) \/ ~Truthy(v)
        THEN [r EXCEPT !.side.profile = <<v>>, !.side.pc = "done",
                       !.side.outcome = "returned"]
        ELSE IF ~Structured(skills) \/ ~Structured(v)
        THEN [r EXCEPT !.side.profile = <<v>>, !.side.pc = "done",
                       !.side.outcome = "threw"]
        ELSE [r EXCEPT !.side.profile = <<v>>, !.side.pc = "done",
                       !.side.outcome = "returned", !.side.rendered = TRUE]

\* the renderer suspended at `await loadJSON(key)` is resumed with v
Resumed(r, key, v) ==
    IF r.pc = "awaitData" /\ key = PathOf(r.page) THEN AfterData(r, v)
    ELSE IF r.side.pc = "awaitSkills" /\ key = SkillsPath THEN AfterSkills(r, v)
    ELSE IF r.side.pc = "awaitProfile" /\ key = ProfilePath THEN AfterProfile(r, v)
    ELSE r

\* a page is loaded and its script calls its init function, which calls
\* loadJSON: served from the cache, or suspended
LoadPage(page) ==
    /\ renderer.page = "none"
    /\ LoadCallAliased(PathOf(page), "json", Reliable, page)
    /\ renderer' = IF last'.op = "hit"
                   THEN AfterData(Fresh(page), last'.ret)
                   ELSE [Fresh(page) EXCEPT !.pc = "awaitData"]

\* renderSidebar, called by initExperience: its first loadJSON.  The call is a
\* step of its own here; the page makes it in the step that resumed
\* initExperience.
renderSidebar ==
    /\ renderer.side.pc = "called"
    /\ loadJSON(SkillsPath, Reliable)
    /\ renderer' = IF last'.op = "hit"
                   THEN AfterSkills(renderer, last'.ret)
                   ELSE [renderer EXCEPT !.side.pc = "awaitSkills"]

\* renderSidebar: its second loadJSON
SidebarLoadsProfile ==
    /\ renderer.side.pc = "gotSkills"
    /\ loadJSON(ProfilePath, Reliable)
    /\ renderer' = IF last'.op = "hit"
                   THEN AfterProfile(renderer, last'.ret)
                   ELSE [renderer EXCEPT !.side.pc = "awaitProfile"]

\* the load the renderer awaits settles, with a body of D, and the renderer
\* goes on
RendererResumesFrom(l, D) ==
    /\ \/ FetchSettles(l)
       \/ BodySettlesAliased(l, Reliable, D,
               IF renderer.pc = "awaitData" /\ l.key = PathOf(renderer.page)
               THEN renderer.page ELSE "none")
    /\ renderer' = Resumed(renderer, l.key, last'.ret)

RendererResumes(l) == RendererResumesFrom(l, Documents)

\* the user leaves the page
LeavePage ==
    /\ renderer.page # "none"
    /\ Navigate
    /\ renderer' = NoPage

----------------------------------------------------------------------------
(* Two pages of the site open at the same time on the same localStorage.   *)
(* Each runs its handlers to their end; the handlers of the two interleave. *)

\* the next steps are those of the other page
SwitchPage ==
    /\ memoryCache' = peer.mem
    /\ inflight' = peer.inflight
    /\ peer' = [peer EXCEPT !.mem = memoryCache, !.inflight = inflight,
                            !.focus = 3 - peer.focus]
    /\ last' = NoEvent("switch")
    /\ UNCHANGED <<localStorage, now, version, writtenUnder, lastSet>>

\* the page in focus made the step: when it stored a value, it is the last
\* setter of the key
SetterNoted ==
    peer' = IF last'.op = "done"
            THEN [peer EXCEPT !.setters =
                    Put(peer.setters, last'.key,
                        IF last'.key \in DOMAIN peer.setters
                        THEN <<peer.setters[last'.key][2], peer.focus>>
                        ELSE <<0, peer.focus>>)]
            ELSE IF last'.op \in {"clear", "tick"}
            THEN [peer EXCEPT !.setters =
                    Restrict(peer.setters, {k \in DOMAIN lastSet' : lastSet'[k].state = "set"})]
            ELSE peer

----------------------------------------------------------------------------
(* The projects page: selectProject, loadScreenshots and the lightbox *)

\* renderings of the detail view on one page
MaxSelections == 2

\* images a project may have
MaxImages == 2

Keyboard == {"Escape", "ArrowLeft", "ArrowRight", "Enter"}

\* #lightbox-close, #lightbox-prev, #lightbox-next and #lightbox-container
Buttons == {"close", "prev", "next", "container"}

\* showPrevImage, changed: no wrap at the first image
PrevIndex_noWrap(cl) == cl.index - 1

\* showPrevImage / showNextImage of the call with scope cl: the new index
PrevIndex(cl) == IF cl.index > 0 THEN cl.index - 1 ELSE cl.images - 1

NextIndex(cl) == IF cl.index < cl.images - 1 THEN cl.index + 1 ELSE 0

\* updateLightboxImage(i) of the k-th call: its index, the src of its
\* lightbox image, and the #lightbox-counter the document has now
updateLightboxImage(st, k, i) ==
    [st EXCEPT !.closures[k].index = i,
               !.closures[k].src = <<i>>,
               !.counter = IF st.hasLightbox THEN <<i + 1, st.closures[k].images>> ELSE @]

\* closeLightbox of the k-th call: its lightbox gets the class 'hidden'
closeLightbox(st, k) == [st EXCEPT !.closures[k].hidden = TRUE]

showPrevImage(st, k) == updateLightboxImage(st, k, PrevIndex(st.closures[k]))

showNextImage(st, k) == updateLightboxImage(st, k, NextIndex(st.closures[k]))

\* handleKeydown of the k-th call
handleKeydown(st, k, key) ==
    IF st.closures[k].hidden THEN st
    ELSE IF key = "Escape" THEN closeLightbox(st, k)
    ELSE IF key = "ArrowLeft" THEN showPrevImage(st, k)
    ELSE IF key = "ArrowRight" THEN showNextImage(st, k)
    ELSE st

\* the document dispatches a keydown event: its listeners run in the order
\* of their registration, from the k-th on
RECURSIVE Dispatch(_, _, _)
Dispatch(st, key, k) ==
    IF k > Len(st.closures) THEN st
    ELSE Dispatch(handleKeydown(st, k, key), key, k + 1)

\* the click listener the k-th call put on a button
ButtonHandler(st, k, button) ==
    CASE button = "prev" -> showPrevImage(st, k)
      [] button = "next" -> showNextImage(st, k)
      [] OTHER -> closeLightbox(st, k)

\* the place of the call id in the closures
PlaceOf(st, id) == CHOOSE k \in 1..Len(st.closures) : st.closures[k].id = id

\* a click on a button: its listeners run in the order of their
\* registration, from the j-th on
RECURSIVE ClickEach(_, _, _)
ClickEach(st, button, j) ==
    IF j > Len(st.buttons) THEN st
    ELSE ClickEach(ButtonHandler(st, PlaceOf(st, st.buttons[j]), button), button, j + 1)

\* document.removeEventListener('keydown', h): the listener that is the
\* function h goes; a function is what one evaluation of the arrow
\* expression made, so two calls of loadScreenshots never have the same
RemoveListener(cls, id) == SelectSeq(cls, LAMBDA c : c.id # id)

\* document.addEventListener('keydown', h): appended unless registered
AddListener(cls, cl) ==
    IF \E i \in 1..Len(cls) : cls[i].id = cl.id THEN cls ELSE Append(cls, cl)

\* the lightbox of the detail view in the document is shown
LightboxOpen(st) ==
    \E k \in 1..Len(st.closures) :
        st.closures[k].id = st.view /\ ~st.closures[k].hidden

Released(st) == [st EXCEPT !.pressed = "none"]

\* selectProject(projectId) on the rendered projects page (the click on a
\* card, or the first project selected by initProjects): renderProjectDetail
\* writes the detail view anew, with a gallery and a hidden lightbox when
\* the project has screenshots, and then calls loadScreenshots, which takes
\* the gallery and the lightbox of this view and is suspended at its image
\* probes; n: the images that exist.  An open lightbox covers the cards.
selectProject(screenshots, n) ==
    /\ renderer.page = "projects"
    /\ renderer.rendered
    /\ ~LightboxOpen(lightbox)
    /\ lightbox.view < MaxSelections
    /\ lightbox' =
          [lightbox EXCEPT !.view = lightbox.view + 1,
                           !.hasLightbox = screenshots,
                           !.buttons = <<>>,
                           !.counter = <<>>,
                           !.pressed = "none",
                           !.probing = IF screenshots
                                       THEN @ (+) One([view |-> lightbox.view + 1, images |-> n])
                                       ELSE @]
    /\ UNCHANGED <<cacheVars, renderer>>

\* loadScreenshots from the point where its probes are done: with no image
\* it writes the placeholder and returns; otherwise it renders the
\* thumbnails into its gallery and sets up the handlers: the click
\* listeners on the buttons the document has now, the keydown one last
loadScreenshots(pr) ==
    /\ BagIn(pr, lightbox.probing)
    /\ LET cl == [id |-> pr.view, images |-> pr.images, index |-> 0,
                  hidden |-> TRUE, src |-> <<>>]
       IN  lightbox' =
             IF pr.images = 0
             THEN [lightbox EXCEPT !.probing = @ (-) One(pr), !.pressed = "none"]
             ELSE [lightbox EXCEPT
                     !.probing = @ (-) One(pr),
                     !.pressed = "none",
                     !.buttons = IF lightbox.hasLightbox THEN Append(@, pr.view) ELSE @,
                     !.closures = AddListener(RemoveListener(@, cl.id), cl)]
    /\ UNCHANGED <<cacheVars, renderer>>

\* a click on the i-th thumbnail of the gallery in the document:
\* updateLightboxImage(i) of the call that rendered it, and its lightbox is
\* shown
ThumbnailClick(i) ==
    /\ ~LightboxOpen(lightbox)
    /\ \E k \in 1..Len(lightbox.closures) :
          /\ lightbox.closures[k].id = lightbox.view
          /\ i < lightbox.closures[k].images
          /\ lightbox' =
                Released([updateLightboxImage(lightbox, k, i) EXCEPT !.closures[k].hidden = FALSE])
    /\ UNCHANGED <<cacheVars, renderer>>

\* a click on a button of the lightbox that is shown, or on its background
ButtonClick(button) ==
    /\ LightboxOpen(lightbox)
    /\ lightbox' = Released(ClickEach(lightbox, button, 1))
    /\ UNCHANGED <<cacheVars, renderer>>

\* the user presses a key
Keydown(key) ==
    /\ renderer.page = "projects"
    /\ lightbox' = [Dispatch(lightbox, key, 1) EXCEPT !.pressed = key]
    /\ UNCHANGED <<cacheVars, renderer>>

\* the user leaves the projects page: its document goes with it
LeaveProjects ==
    /\ LeavePage
    /\ lightbox' = NoLightbox

----------------------------------------------------------------------------
(* The lab page: openExperimentModal and the handlers that close the modal *)

\* modals made on one page
MaxModals == 2

\* `../lab-notes/${experiment.noteFile}`
NotePath == <<"n">>

\* closeModal of the call id: modal.remove() and the body scrolls again
closeModal(st, id) ==
    [st EXCEPT !.modals = SelectSeq(st.modals, LAMBDA m : m.id # id),
               !.overflow = ""]

\* the closeModal of each call in ids, from the i-th on
RECURSIVE CloseEach(_, _, _)
CloseEach(st, ids, i) ==
    IF i > Len(ids) THEN st ELSE CloseEach(closeModal(st, ids[i]), ids, i + 1)

Unpressed(st) == [st EXCEPT !.pressed = "none"]

\* openExperimentModal from the point where it has the markdown: the modal
\* is appended to the body, scrolling is locked, and the close handlers are
\* registered: closeModal on the element document.getElementById('close-modal')
\* finds (the first with that id in the document), and the keydown listener
\* with { once: true }
ShowModal(st) ==
    LET id == st.made + 1
        appended == Append(st.modals, [id |-> id, closes |-> <<>>])
    IN  [st EXCEPT !.made = id,
                   !.modals = [appended EXCEPT ![1].closes = Append(@, id)],
                   !.keydown = Append(st.keydown, id),
                   !.overflow = "hidden",
                   !.pressed = "none"]

\* a click on an interactive card of the rendered grid: openExperimentModal
\* up to `await loadMarkdown(...)`, or its return when the experiment has
\* no noteFile.  A modal that is shown covers the cards.
CardClick(noteFile) ==
    /\ renderer.page = "lab"
    /\ renderer.rendered
    /\ lab.modals = <<>>
    /\ lab.made + CopiesIn(Pending(NotePath, "markdown"), inflight) < MaxModals
    /\ IF noteFile
       THEN /\ loadMarkdown(NotePath, Reliable)
            /\ lab' = IF last'.op = "hit" THEN ShowModal(lab) ELSE Unpressed(lab)
       ELSE /\ lab' = Unpressed(lab)
            /\ UNCHANGED cacheVars
    /\ UNCHANGED renderer

\* the loadMarkdown that openExperimentModal awaits settles:
\* `if (!markdown) return`, otherwise the modal is shown
NoteSettles(l) ==
    /\ l.key = NotePath
    /\ \/ FetchSettles(l)
       \/ BodySettles(l, Reliable)
    /\ lab' = IF Truthy(last'.ret) THEN ShowModal(lab) ELSE Unpressed(lab)
    /\ UNCHANGED renderer

\* the user presses a key on the lab page: every keydown listener of the
\* document runs and, registered with { once: true }, is removed
LabKeydown(key) ==
    /\ renderer.page = "lab"
    /\ lab' = [(IF key = "Escape" THEN CloseEach(lab, lab.keydown, 1) ELSE lab)
                 EXCEPT !.keydown = <<>>, !.pressed = key]
    /\ UNCHANGED <<cacheVars, renderer>>

\* a click on the close button of the modal on top (the last in the body)
CloseClick ==
    /\ lab.modals # <<>>
    /\ lab' = Unpressed(CloseEach(lab, lab.modals[Len(lab.modals)].closes, 1))
    /\ UNCHANGED <<cacheVars, renderer>>

\* a click on the backdrop of the modal on top: e.target === modal
BackdropClick ==
    /\ lab.modals # <<>>
    /\ lab' = Unpressed(closeModal(lab, lab.modals[Len(lab.modals)].id))
    /\ UNCHANGED <<cacheVars, renderer>>

\* the user leaves the lab page: its document goes with it
LeaveLab ==
    /\ LeavePage
    /\ lab' = NoLab

----------------------------------------------------------------------------
(* The ping button of the sidebar: setupPingEasterEgg and trackPing *)

\* clicks on the ping button in one session
MaxClicks == 3

\* trackPing, changed: the session is marked once the request has gone through
trackPing_marksAfter(st, getThrows, setThrows, fails) ==
    IF getThrows THEN [st EXCEPT !.outcome = "threw"]
    ELSE IF Truthy(st.tracked) THEN [st EXCEPT !.outcome = "skipped"]
    ELSE IF fails
    THEN [st EXCEPT !.sent = @ + 1, !.failed = @ + 1, !.outcome = "sent"]
    ELSE IF setThrows THEN [st EXCEPT !.sent = @ + 1, !.outcome = "threw"]
    ELSE [st EXCEPT !.tracked = TextValue(<<"t", "r", "u", "e">>),
                    !.sent = @ + 1, !.outcome = "sent"]

\* trackPing(): the test of the item, the setItem, then the request
\* (sendBeacon, or fetch with its rejection swallowed); getThrows,
\* setThrows: the sessionStorage call throws; fails: the request fails
trackPing(st, getThrows, setThrows, fails) ==
    IF getThrows THEN [st EXCEPT !.outcome = "threw"]
    ELSE IF Truthy(st.tracked) THEN [st EXCEPT !.outcome = "skipped"]
    ELSE IF setThrows THEN [st EXCEPT !.outcome = "threw"]
    ELSE [st EXCEPT !.tracked = TextValue(<<"t", "r", "u", "e">>),
                    !.sent = @ + 1,
                    !.failed = IF fails THEN @ + 1 ELSE @,
                    !.outcome = "sent"]

\* a click on #ping-btn of the rendered sidebar: the listener calls trackPing
PingClick ==
    /\ renderer.side.rendered
    /\ ping.clicks < MaxClicks
    /\ \E getThrows \in Faulty, setThrows \in Faulty, fails \in BOOLEAN :
          ping' = [trackPing(ping, getThrows, setThrows, fails) EXCEPT !.clicks = @ + 1]
    /\ UNCHANGED <<cacheVars, renderer>>

\* the tab is closed and the site is opened in a new one: sessionStorage
\* starts empty
EndSession ==
    /\ LeavePage
    /\ ping' = NoPing

----------------------------------------------------------------------------
(* Specifications *)

\* one page; every localStorage call may throw, records may be unparsable
Next ==
    \/ Tick /\ UNCHANGED pageVars
    \/ \E key \in FaultKeys : loadJSON(key, Faulty) /\ UNCHANGED pageVars
    \/ \E key \in FaultKeys : loadMarkdown(key, Faulty) /\ UNCHANGED pageVars
    \/ \E l \in BagToSet(inflight) : FetchSettles(l) /\ UNCHANGED pageVars
    \/ \E l \in BagToSet(inflight) : BodySettles(l, Faulty) /\ UNCHANGED pageVars
    \/ clearCache(Faulty) /\ UNCHANGED pageVars
    \/ Navigate /\ UNCHANGED pageVars
    \/ \E key \in FaultKeys : ForeignWrite(key) /\ UNCHANGED pageVars

Spec == Init /\ [][Next]_vars

\* one page; localStorage never throws and only this code writes to it
NextNominal ==
    \/ Tick /\ UNCHANGED pageVars
    \/ \E key \in Keys : loadJSON(key, Reliable) /\ UNCHANGED pageVars
    \/ \E key \in Keys : loadMarkdown(key, Reliable) /\ UNCHANGED pageVars
    \/ \E l \in BagToSet(inflight) : FetchSettles(l) /\ UNCHANGED pageVars
    \/ \E l \in BagToSet(inflight) : BodySettles(l, Reliable) /\ UNCHANGED pageVars
    \/ clearCache(Reliable) /\ UNCHANGED pageVars
    \/ Navigate /\ UNCHANGED pageVars

SpecNominal == Init /\ [][NextNominal]_vars

\* as SpecNominal, over deployments with different values of CACHE_VERSION
NextVersions ==
    \/ Tick /\ UNCHANGED pageVars
    \/ \E key \in Keys : loadJSON(key, Reliable) /\ UNCHANGED pageVars
    \/ \E l \in BagToSet(inflight) : FetchSettles(l) /\ UNCHANGED pageVars
    \/ \E l \in BagToSet(inflight) : BodySettles(l, Reliable) /\ UNCHANGED pageVars
    \/ clearCache(Reliable) /\ UNCHANGED pageVars
    \/ Deploy /\ UNCHANGED pageVars

SpecVersions == Init /\ [][NextVersions]_vars

\* one page and one key, localStorage never throws; with the history of the
\* loads in the order of their calls
NextTrace ==
    \/ Tick /\ trace' = Quiet(trace) /\ UNCHANGED exceptTrace
    \/ \E key \in FaultKeys :
            loadJSON(key, Reliable) /\ TracedCall(key, "json") /\ UNCHANGED exceptTrace
    \/ \E key \in FaultKeys :
            loadMarkdown(key, Reliable) /\ TracedCall(key, "markdown") /\ UNCHANGED exceptTrace
    \/ \E l \in BagToSet(inflight), i \in 1..MaxInFlight :
            FetchSettles(l) /\ TracedSettle(l, i) /\ UNCHANGED exceptTrace
    \/ \E l \in BagToSet(inflight), i \in 1..MaxInFlight :
            BodySettles(l, Reliable) /\ TracedSettle(l, i) /\ UNCHANGED exceptTrace
    \/ clearCache(Reliable) /\ trace' = Quiet(trace) /\ UNCHANGED exceptTrace
    \/ Navigate /\ TracedUnload /\ UNCHANGED exceptTrace

SpecTrace == Init /\ [][NextTrace]_vars

\* the pages of the site, one after the other, each with its renderer, within
\* CACHE_TTL (the clock stands still)
NextRender ==
    \/ \E page \in Pages : LoadPage(page) /\ UNCHANGED exceptRenderer
    \/ renderSidebar /\ UNCHANGED exceptRenderer
    \/ SidebarLoadsProfile /\ UNCHANGED exceptRenderer
    \/ \E l \in BagToSet(inflight) : RendererResumes(l) /\ UNCHANGED exceptRenderer
    \/ LeavePage /\ UNCHANGED exceptRenderer
    \/ clearCache(Reliable) /\ UNCHANGED pageVars

SpecRender == Init /\ [][NextRender]_vars

\* the suspended load l settles, in one way or the other
Settles(l) ==
    \E i \in 1..MaxInFlight :
        /\ FetchSettles(l) \/ BodySettles(l, Reliable)
        /\ TracedSettle(l, i)
        /\ UNCHANGED exceptTrace

\* the loads that can be suspended
LiveLoads == {Pending(key, mode) : key \in FaultKeys, mode \in {"json", "markdown"}}

\* one page that stays (no navigation), one key, with the history of the
\* loads; every transport call settles in the end
NextLive ==
    \/ Tick /\ trace' = Quiet(trace) /\ UNCHANGED exceptTrace
    \/ \E key \in FaultKeys :
            loadJSON(key, Reliable) /\ TracedCall(key, "json") /\ UNCHANGED exceptTrace
    \/ \E key \in FaultKeys :
            loadMarkdown(key, Reliable) /\ TracedCall(key, "markdown") /\ UNCHANGED exceptTrace
    \/ \E l \in BagToSet(inflight) : Settles(l)
    \/ clearCache(Reliable) /\ trace' = Quiet(trace) /\ UNCHANGED exceptTrace

SpecLive == Init /\ [][NextLive]_vars /\ \A l \in LiveLoads : WF_vars(Settles(l))

\* two pages on one localStorage, one key, localStorage never throws; the
\* loads are those of loadMarkdown, whose bodies give two values to store
NextPages ==
    \/ Tick /\ SetterNoted /\ UNCHANGED exceptPeer
    \/ \E key \in FaultKeys : loadMarkdown(key, Reliable) /\ SetterNoted /\ UNCHANGED exceptPeer
    \/ \E l \in BagToSet(inflight) : FetchSettles(l) /\ SetterNoted /\ UNCHANGED exceptPeer
    \/ \E l \in BagToSet(inflight) :
            BodySettles(l, Reliable) /\ SetterNoted /\ UNCHANGED exceptPeer
    \/ clearCache(Reliable) /\ SetterNoted /\ UNCHANGED exceptPeer
    \/ Navigate /\ SetterNoted /\ UNCHANGED exceptPeer
    \/ SwitchPage /\ UNCHANGED exceptPeer

SpecPages == Init /\ [][NextPages]_vars

\* the projects page: its renderer over the loader, and on the rendered page
\* the selection of projects and the lightbox; the clock stands still
NextLightbox ==
    \/ LoadPage("projects") /\ UNCHANGED lightbox /\ UNCHANGED exceptProjects
    \/ \E l \in BagToSet(inflight) :
            RendererResumes(l) /\ UNCHANGED lightbox /\ UNCHANGED exceptProjects
    \/ \E screenshots \in BOOLEAN, n \in 0..MaxImages :
            selectProject(screenshots, n) /\ UNCHANGED exceptProjects
    \/ \E pr \in BagToSet(lightbox.probing) : loadScreenshots(pr) /\ UNCHANGED exceptProjects
    \/ \E i \in 0..(MaxImages - 1) : ThumbnailClick(i) /\ UNCHANGED exceptProjects
    \/ \E button \in Buttons : ButtonClick(button) /\ UNCHANGED exceptProjects
    \/ \E key \in Keyboard : Keydown(key) /\ UNCHANGED exceptProjects
    \/ LeaveProjects /\ UNCHANGED exceptProjects

SpecLightbox == Init /\ [][NextLightbox]_vars

\* the lab page: its renderer over the loader, and on the rendered page the
\* cards, the modals and the keyboard; the clock stands still
NextLab ==
    \/ LoadPage("lab") /\ UNCHANGED lab /\ UNCHANGED exceptLab
    \/ \E l \in BagToSet(inflight) :
            l.key = LabPath /\ RendererResumes(l) /\ UNCHANGED lab /\ UNCHANGED exceptLab
    \/ \E noteFile \in BOOLEAN : CardClick(noteFile) /\ UNCHANGED exceptLab
    \/ \E l \in BagToSet(inflight) : NoteSettles(l) /\ UNCHANGED exceptLab
    \/ \E key \in Keyboard : LabKeydown(key) /\ UNCHANGED exceptLab
    \/ CloseClick /\ UNCHANGED exceptLab
    \/ BackdropClick /\ UNCHANGED exceptLab
    \/ LeaveLab /\ UNCHANGED exceptLab

SpecLab == Init /\ [][NextLab]_vars

\* the experience page with its sidebar and the ping button, over several
\* visits of the page in one session and over several sessions; the clock
\* stands still
NextPing ==
    \/ LoadPage("experience") /\ UNCHANGED ping /\ UNCHANGED exceptPing
    \/ renderSidebar /\ UNCHANGED ping /\ UNCHANGED exceptPing
    \/ SidebarLoadsProfile /\ UNCHANGED ping /\ UNCHANGED exceptPing
    \/ \E l \in BagToSet(inflight) :
            RendererResumes(l) /\ UNCHANGED ping /\ UNCHANGED exceptPing
    \/ LeavePage /\ UNCHANGED ping /\ UNCHANGED exceptPing
    \/ PingClick /\ UNCHANGED exceptPing
    \/ EndSession /\ UNCHANGED exceptPing

SpecPing == Init /\ [][NextPing]_vars

\* response bodies that are a structure as JSON and a non-empty text, a
\* number as JSON and a non-empty text, no JSON and the empty text
ModeBodies == { <<"{", "}">>, <<"1">>, <<>> }

\* one page after the other, one key, localStorage never throws and only
\* this code writes to it; both loaders on the same path, with the loader
\* that was called and the loader that stored the record
NextModes ==
    \/ Tick /\ NoCallNoted /\ UNCHANGED exceptHistory
    \/ \E key \in FaultKeys :
            loadJSON(key, Reliable) /\ CallNoted("json") /\ UNCHANGED exceptHistory
    \/ \E key \in FaultKeys :
            loadMarkdown(key, Reliable) /\ CallNoted("markdown") /\ UNCHANGED exceptHistory
    \/ \E l \in BagToSet(inflight) :
            FetchSettles(l) /\ SettleNoted(l) /\ UNCHANGED exceptHistory
    \/ \E l \in BagToSet(inflight) :
            BodySettlesFrom(l, Reliable, ModeBodies) /\ SettleNoted(l) /\ UNCHANGED exceptHistory
    \/ clearCache(Reliable) /\ NoCallNoted /\ UNCHANGED exceptHistory
    \/ Navigate /\ NoCallNoted /\ UNCHANGED exceptHistory

SpecModes == Init /\ [][NextModes]_vars

\* as SpecVersions, with the keys each step removed from localStorage
NextScope ==
    \/ Tick /\ RemovedNoted /\ UNCHANGED exceptHistory
    \/ \E key \in Keys : loadJSON(key, Reliable) /\ RemovedNoted /\ UNCHANGED exceptHistory
    \/ \E l \in BagToSet(inflight) : FetchSettles(l) /\ RemovedNoted /\ UNCHANGED exceptHistory
    \/ \E l \in BagToSet(inflight) :
            BodySettles(l, Reliable) /\ RemovedNoted /\ UNCHANGED exceptHistory
    \/ clearCache(Reliable) /\ RemovedNoted /\ UNCHANGED exceptHistory
    \/ Deploy /\ RemovedNoted /\ UNCHANGED exceptHistory

SpecScope == Init /\ [][NextScope]_vars

\* one page and one key, localStorage never throws; with the loads that
\* are suspended over a clearCache
NextCancel ==
    \/ Tick /\ UNCHANGED pageVars
    \/ \E key \in FaultKeys :
            loadJSON(key, Reliable) /\ CallAfterClear /\ UNCHANGED exceptHistory
    \/ \E key \in FaultKeys :
            loadMarkdown(key, Reliable) /\ CallAfterClear /\ UNCHANGED exceptHistory
    \/ \E l \in BagToSet(inflight) :
            FetchSettles(l) /\ SettleAfterClear /\ UNCHANGED exceptHistory
    \/ \E l \in BagToSet(inflight) :
            BodySettles(l, Reliable) /\ SettleAfterClear /\ UNCHANGED exceptHistory
    \/ clearCache(Reliable) /\ ClearNoted /\ UNCHANGED exceptHistory
    \/ Navigate /\ history' = NoHistory /\ UNCHANGED exceptHistory

SpecCancel == Init /\ [][NextCancel]_vars

\* the bodies of '../data/experience.json': the entries latest first, and not
Timelines == { <<"[", "2", ",", "1", "]">>, <<"[", "1", ",", "2", "]">> }

\* the experience page with its sidebar, over several visits; localStorage
\* never throws and no other page writes to it
NextExperience ==
    \/ Tick /\ UNCHANGED pageVars
    \/ LoadPage("experience") /\ UNCHANGED exceptRenderer
    \/ renderSidebar /\ UNCHANGED exceptRenderer
    \/ SidebarLoadsProfile /\ UNCHANGED exceptRenderer
    \/ \E l \in BagToSet(inflight) : RendererResumesFrom(l, Timelines) /\ UNCHANGED exceptRenderer
    \/ LeavePage /\ UNCHANGED exceptRenderer
    \/ clearCache(Reliable) /\ UNCHANGED pageVars

SpecExperience == Init /\ [][NextExperience]_vars

\* one page and one key, every localStorage call may throw, only this code
\* writes to localStorage; with the history of the setCachedData calls; the
\* loads are those of loadMarkdown, whose bodies give two values to store
NextHistory ==
    \/ Tick /\ SetNoted /\ UNCHANGED exceptHistory
    \/ \E key \in FaultKeys : loadMarkdown(key, Faulty) /\ SetNoted /\ UNCHANGED exceptHistory
    \/ \E l \in BagToSet(inflight) : FetchSettles(l) /\ SetNoted /\ UNCHANGED exceptHistory
    \/ \E l \in BagToSet(inflight) : BodySettles(l, Faulty) /\ SetNoted /\ UNCHANGED exceptHistory
    \/ clearCache(Faulty) /\ SetNoted /\ UNCHANGED exceptHistory
    \/ Navigate /\ SetNoted /\ UNCHANGED exceptHistory

SpecHistory == Init /\ [][NextHistory]_vars

\* the key loaded as JSON and the key loaded as text
JSONKeys == FaultKeys

MarkdownKeys == Keys \ FaultKeys

\* one page and two keys, one loaded with loadJSON and one with
\* loadMarkdown; localStorage never throws and only this code writes to it;
\* with the history of the decoded responses
NextProvenance ==
    \/ Tick /\ DecodedNoted /\ UNCHANGED exceptHistory
    \/ \E key \in JSONKeys : loadJSON(key, Reliable) /\ DecodedNoted /\ UNCHANGED exceptHistory
    \/ \E key \in MarkdownKeys :
            loadMarkdown(key, Reliable) /\ DecodedNoted /\ UNCHANGED exceptHistory
    \/ \E l \in BagToSet(inflight) : FetchSettles(l) /\ DecodedNoted /\ UNCHANGED exceptHistory
    \/ \E l \in BagToSet(inflight) :
            BodySettles(l, Reliable) /\ DecodedNoted /\ UNCHANGED exceptHistory
    \/ clearCache(Reliable) /\ DecodedNoted /\ UNCHANGED exceptHistory
    \/ Navigate /\ DecodedNoted /\ UNCHANGED exceptHistory

SpecProvenance == Init /\ [][NextProvenance]_vars

\* the resource keys of all specifications
AllKeys == Keys \cup {ProjectsPath, LabPath, SkillsPath, ExperiencePath, ProfilePath, NotePath}

TypeOK ==
    /\ DOMAIN memoryCache \subseteq AllKeys
    /\ now \in 0..(MaxSteps * TickUnit)
    /\ BagCardinality(inflight) <= MaxInFlight

----------------------------------------------------------------------------
(* Properties *)

\* the step is a load call on key k: getCachedData(k) ran in it
CallOn(k) == last'.op \in {"hit", "miss"} /\ last'.key = k

\* the last setCachedData(k, v) is less than CACHE_TTL old, no clearCache since
SetLive(k) == k \in DOMAIN lastSet /\ lastSet[k].state = "set"

MemEntry(data, t) == [data |-> data, timestamp |-> t]

\* C1: a load call on a key whose last successful load stored a value less
\* than CACHE_TTL ago returns that value and makes no transport call,
\* whatever the value (falsy values included).
C1_Idempotent ==
    [][\A k \in Keys :
         (CallOn(k) /\ SetLive(k))
            => (last'.op = "hit" /\ last'.ret = lastSet[k].data)]_vars

\* C2: after setCachedData(k, v) at time T, getCachedData(k) at time t returns
\* v when t - T < CACHE_TTL; when t - T >= CACHE_TTL it returns null and k is
\* then in neither the Map nor localStorage.
C2_TTLExpiry ==
    [][\A k \in Keys :
         (CallOn(k) /\ k \in DOMAIN lastSet /\ lastSet[k].state # "cleared")
            => IF lastSet[k].state = "set"
               THEN /\ now - lastSet[k].timestamp < CACHE_TTL
                    /\ last'.got = lastSet[k].data
                    /\ last'.src # "none"
               ELSE /\ last'.got = NullValue
                    /\ last'.src = "none"
                    /\ k \notin DOMAIN memoryCache'
                    /\ StorageKey(version, k) \notin DOMAIN localStorage']_vars

\* C2 witness: a read of a key whose entry had expired found nothing and left
\* the key in neither tier
C2_Witness ==
    /\ last.op = "miss"
    /\ last.key \in DOMAIN lastSet
    /\ lastSet[last.key].state = "expired"
    /\ last.key \notin DOMAIN memoryCache
    /\ StorageKey(version, last.key) \notin DOMAIN localStorage

\* C3: after a setCachedData(k, v) whose localStorage write was accepted,
\* with the Map emptied by a navigation, a getCachedData(k) within CACHE_TTL
\* whose own localStorage read goes through returns v from localStorage and
\* puts the entry, with its original timestamp, back into the Map, from
\* where the next getCachedData(k) is served.
C3_TwoTierFallback ==
    [][\A k \in Keys :
         (CallOn(k) /\ SetLive(k) /\ lastSet[k].accepted /\ k \notin DOMAIN memoryCache
             /\ ~last'.caught)
            => /\ last'.got = lastSet[k].data
               /\ last'.src = "storage"
               /\ k \in DOMAIN memoryCache'
               /\ memoryCache'[k] = MemEntry(lastSet[k].data, lastSet[k].timestamp)
               /\ getCachedData(k, memoryCache', localStorage', version, now,
                                FALSE, FALSE).src = "memory"]_vars

\* C3 witness: after a navigation a load call was served from localStorage and
\* the Map holds the entry again
C3_Witness ==
    /\ last.op = "hit"
    /\ last.src = "storage"
    /\ SetLive(last.key)
    /\ ~lastSet[last.key].resident
    /\ last.key \in DOMAIN memoryCache
    /\ memoryCache[last.key].data = last.ret

\* C4: a load call is never served from a localStorage record that was
\* written under another CACHE_VERSION than that of the running page.
C4_VersionIsolation ==
    (last.op \in {"hit", "miss"} /\ last.src = "storage")
        => /\ StorageKey(version, last.key) \in DOMAIN writtenUnder
           /\ writtenUnder[StorageKey(version, last.key)].version = version

\* C5: clearCache empties the Map and leaves no key with the prefix in
\* localStorage, and until the next setCachedData(k) every getCachedData(k)
\* returns null.
C5_ClearAll ==
    [][/\ last'.op = "clear"
            => (memoryCache' = EmptyMap /\ Prefixed(localStorage') = {})
       /\ \A k \in Keys :
            (CallOn(k) /\ k \in DOMAIN lastSet /\ lastSet[k].state = "cleared")
               => (last'.got = NullValue /\ last'.src = "none")]_vars

\* C5 witness: both keys had been stored, clearCache ran, and a load call
\* made while the stored values were still less than CACHE_TTL old found
\* nothing
C5_Witness ==
    /\ last.op = "miss"
    /\ last.src = "none"
    /\ now < CACHE_TTL
    /\ \A k \in Keys : k \in DOMAIN lastSet /\ lastSet[k].state = "cleared"

\* C6 as stated: when a load takes its failure path it returns null and no
\* entry for its key exists in the Map or in localStorage.
C6_FailureLeavesNoEntry ==
    last.op = "fail"
        => /\ last.ret = NullValue
           /\ last.key \notin DOMAIN memoryCache
           /\ StorageKey(version, last.key) \notin DOMAIN localStorage

\* C6 amended: when a load takes its failure path it returns null and writes
\* nothing: the Map and localStorage are the same after it as before, so an
\* entry for its key exists afterwards only if it was there already.
C6_FailureWritesNothing ==
    [][last'.op = "fail"
         => /\ last'.ret = NullValue
            /\ memoryCache' = memoryCache
            /\ localStorage' = localStorage]_vars

\* C6 witness: a load failed while an entry for its key was in the cache
C6_Witness ==
    /\ last.op = "fail"
    /\ last.key \in DOMAIN memoryCache
    /\ StorageKey(version, last.key) \in DOMAIN localStorage

\* C7: no step of loadJSON / loadMarkdown lets an exception escape, whatever
\* the transport and localStorage do, and the failure path returns null.
C7_NeverRaises ==
    /\ ~last.threw
    /\ last.op = "fail" => last.ret = NullValue

\* C7 witness: a localStorage call threw inside a load call, which went on to
\* the transport
C7_Witness ==
    /\ last.op = "miss"
    /\ last.caught
    /\ ~last.threw

\* C8: once the entry of k has expired the next load call on k makes one
\* transport call; when it completes both tiers hold the new value with the
\* time of the refetch; and further load calls on k within CACHE_TTL of the
\* refetch make no transport call.
C8_RefetchAfterExpiry ==
    [][\A k \in Keys :
         /\ (CallOn(k) /\ k \in DOMAIN lastSet /\ lastSet[k].state = "expired")
               => /\ last'.op = "miss"
                  /\ BagCardinality(inflight') = BagCardinality(inflight) + 1
         /\ (last'.op = "done" /\ last'.key = k
                /\ k \in DOMAIN lastSet /\ lastSet[k].state = "expired")
               => /\ k \in DOMAIN memoryCache'
                  /\ memoryCache'[k] = MemEntry(last'.ret, now)
                  /\ StorageKey(version, k) \in DOMAIN localStorage'
                  /\ ParseStored(localStorage'[StorageKey(version, k)])
                        = [ok |-> TRUE, data |-> last'.ret, timestamp |-> now]
         /\ (CallOn(k) /\ SetLive(k) /\ lastSet[k].refetch)
               => (last'.op = "hit" /\ BagCardinality(inflight') = BagCardinality(inflight))]_vars

\* C9: getCachedData, setCachedData and clearCache let no exception escape
\* whatever localStorage does: the read returns the live Map entry, or null
\* when there is none and localStorage failed; the write leaves the value in
\* the Map; clearCache leaves the Map empty.
C9_StoreFailuresSwallowed ==
    [][/\ ~last'.threw
       /\ \A k \in Keys :
            /\ CallOn(k)
                 => IF k \in DOMAIN memoryCache
                       /\ now - memoryCache[k].timestamp < CACHE_TTL
                    THEN last'.got = memoryCache[k].data /\ last'.src = "memory"
                    ELSE last'.caught => (last'.got = NullValue /\ last'.src = "none")
            /\ (last'.op = "done" /\ last'.key = k)
                 => /\ k \in DOMAIN memoryCache'
                    /\ memoryCache'[k] = MemEntry(last'.ret, now)
       /\ last'.op = "clear" => memoryCache' = EmptyMap]_vars

\* C9 witness: localStorage.setItem threw and the value is in the Map all the
\* same, not in localStorage
C9_Witness ==
    /\ last.op = "done"
    /\ last.caught
    /\ last.key \in DOMAIN memoryCache
    /\ memoryCache[last.key] = MemEntry(last.ret, now)
    /\ StorageKey(version, last.key) \notin DOMAIN localStorage

\* C10: after a setCachedData(k, v) whose localStorage write was rejected,
\* every getCachedData(k) of the same page within CACHE_TTL returns v, from
\* the Map, whatever localStorage holds for k.
C10_FastTierAuthoritative ==
    [][\A k \in Keys :
         (CallOn(k) /\ SetLive(k) /\ ~lastSet[k].accepted /\ lastSet[k].resident)
            => (last'.got = lastSet[k].data /\ last'.src = "memory")]_vars

\* C10 witness: a load call returned the value of the rejected write while
\* localStorage holds an older live record with another value
C10_Witness ==
    /\ last.op = "hit"
    /\ SetLive(last.key)
    /\ ~lastSet[last.key].accepted
    /\ lastSet[last.key].resident
    /\ last.ret = lastSet[last.key].data
    /\ StorageKey(version, last.key) \in DOMAIN localStorage
    /\ LET rec == ParseStored(localStorage[StorageKey(version, last.key)])
       IN  rec.ok /\ now - rec.timestamp < CACHE_TTL /\ rec.data # last.ret

Modes == {"json", "markdown"}

\* localStorage holds for k the record of value v stored at time t
Persisted(ls, ver, k, v, t) ==
    /\ StorageKey(ver, k) \in DOMAIN ls
    /\ ParseStored(ls[StorageKey(ver, k)]) = [ok |-> TRUE, data |-> v, timestamp |-> t]

\* C11: loads of the same key are not deduplicated.  Every load call that
\* misses calls fetch, also when loads of its key are already suspended, so n
\* concurrent misses are n suspended loads; every one of them that obtains a
\* value stores it, so the entry in both tiers is always the value and the
\* time of the load that was processed last, whenever that load was called.
C11_NotDeduplicated ==
    [][/\ Len(trace'.starts) = BagCardinality(inflight')
       /\ \A k \in Keys :
            /\ (CallOn(k) /\ last'.op = "miss")
                  => \E m \in Modes : inflight' = inflight (+) One(Pending(k, m))
            /\ (last'.op = "done" /\ last'.key = k)
                  => /\ \E m \in Modes : inflight' = inflight (-) One(Pending(k, m))
                     /\ k \in DOMAIN memoryCache'
                     /\ memoryCache'[k] = MemEntry(last'.ret, now)
                     /\ Persisted(localStorage', version, k, last'.ret, now)]_vars

\* C11 witness: two loads of one key were suspended together; the one called
\* later stored its value first, and the one called first has now stored
\* another value over it
C11_Witness ==
    /\ last.op = "done"
    /\ trace.before # <<>>
    /\ trace.before[1].data # last.ret
    /\ trace.beforeStart > trace.started
    /\ memoryCache[last.key] = MemEntry(last.ret, now)
    /\ Persisted(localStorage, version, last.key, last.ret, now)

\* C12: a load that fails (fetch rejects, the status is not ok, or the body
\* does not decode) does not call setCachedData: the step in which it returns
\* null leaves the Map, localStorage and the record of the last set of every
\* key as they were; and a value is stored only when a body decoded to it.
C12_FailedLoadWritesNothing ==
    [][/\ last'.op = "fail"
            => /\ last'.ret = NullValue
               /\ UNCHANGED <<memoryCache, localStorage, lastSet, writtenUnder>>
       /\ lastSet' # lastSet
            => \/ last'.op \in {"tick", "clear", "navigate"}
               \/ /\ last'.op = "done"
                  /\ \E body \in Bodies :
                        \/ last'.ret = TextValue(body)
                        \/ JSONParse(body).ok /\ last'.ret = JSONParse(body).value]_vars

\* C12 witness: a load failed while both tiers held a live entry for its key,
\* and they hold it still
C12_Witness ==
    /\ last.op = "fail"
    /\ SetLive(last.key)
    /\ last.key \in DOMAIN memoryCache
    /\ memoryCache[last.key] = MemEntry(lastSet[last.key].data, lastSet[last.key].timestamp)
    /\ Persisted(localStorage, version, last.key,
                 lastSet[last.key].data, lastSet[last.key].timestamp)

\* C13: a renderer to which loadJSON returned null returns without having
\* rendered its section, without having registered handlers and without an
\* exception: initProjects, initLab, initSkills and initExperience (which then
\* does not call renderSidebar), and renderSidebar when either of its two
\* loads returned null.  An exception ends a renderer only when every value
\* it loaded was not null.
C13_RenderersDegrade ==
    /\ renderer.got = <<NullValue>>
          => /\ renderer.outcome = "returned"
             /\ ~renderer.rendered
             /\ ~renderer.handlers
             /\ renderer.side = NoSide
    /\ (renderer.side.pc = "done"
           /\ NullValue \in {renderer.side.skills[1], renderer.side.profile[1]})
          => /\ renderer.side.outcome = "returned"
             /\ ~renderer.side.rendered
    /\ renderer.outcome = "threw" => renderer.got # <<NullValue>>
    /\ renderer.side.outcome = "threw"
          => NullValue \notin {renderer.side.skills[1], renderer.side.profile[1]}

\* C13 witness: the load of the resource of the page failed, loadJSON returned
\* null to the init function, and it has returned
C13_Witness ==
    /\ last.op = "fail"
    /\ renderer.page \in Pages
    /\ last.key = PathOf(renderer.page)
    /\ renderer.got = <<NullValue>>
    /\ renderer.pc = "done"
    /\ renderer.outcome = "returned"

\* localStorage holds for k a string that JSON.parse rejects
CorruptFor(ls, ver, k) ==
    /\ StorageKey(ver, k) \in DOMAIN ls
    /\ ~ParseStored(ls[StorageKey(ver, k)]).ok

\* the Map holds for k an entry less than CACHE_TTL old
MemLive(mem, k, t) == k \in DOMAIN mem /\ t - mem[k].timestamp < CACHE_TTL

\* C14: when the localStorage record of k cannot be parsed (and the Map has
\* no live entry for k), getCachedData(k) returns null and leaves the record
\* as it is; the load call goes on to fetch; and when a load of k stores its
\* value and localStorage takes the write, the record is a valid one.
C14_CorruptRecordKept ==
    [][\A k \in Keys :
         /\ (CallOn(k) /\ CorruptFor(localStorage, version, k)
                /\ ~MemLive(memoryCache, k, now))
               => /\ last'.got = NullValue
                  /\ last'.src = "none"
                  /\ localStorage' = localStorage
                  /\ last'.op = "miss"
                  /\ \E m \in Modes : inflight' = inflight (+) One(Pending(k, m))
         /\ (last'.op = "done" /\ last'.key = k /\ ~last'.caught
                /\ CorruptFor(localStorage, version, k))
               => Persisted(localStorage', version, k, last'.ret, now)]_vars

\* C14 witness: a load call found the record of its key unparsable, left it
\* in localStorage and went on to fetch
C14_Witness ==
    /\ last.op = "miss"
    /\ last.caught
    /\ CorruptFor(localStorage, version, last.key)
    /\ localStorage[StorageKey(version, last.key)] = Corrupt
    /\ \E l \in BagToSet(inflight) : l.key = last.key

\* what a tier holds for a key: the entry, or nothing
EntryOf(f, key) == IF key \in DOMAIN f THEN <<f[key]>> ELSE <<>>

\* localStorage holds for k a record less than CACHE_TTL old
StoredLive(ls, ver, k, t) ==
    /\ StorageKey(ver, k) \in DOMAIN ls
    /\ ParseStored(ls[StorageKey(ver, k)]).ok
    /\ t - ParseStored(ls[StorageKey(ver, k)]).timestamp < CACHE_TTL

\* C15: expiry is lazy.  The passing of time removes nothing; an entry of k
\* leaves the Map only in a getCachedData(k) that finds it expired there, in
\* clearCache, or with the page; a record of k leaves localStorage only in a
\* getCachedData(k) that finds it expired there or in clearCache;
\* setCachedData removes nothing; and getCachedData(k) leaves the entries of
\* every other key and a live entry of k as they are.
C15_LazyExpiryOnly ==
    [][/\ last'.op = "tick" => UNCHANGED <<memoryCache, localStorage>>
       /\ last'.op = "done"
            => /\ DOMAIN memoryCache \subseteq DOMAIN memoryCache'
               /\ DOMAIN localStorage \subseteq DOMAIN localStorage'
       /\ \A k \in Keys :
            LET skey == StorageKey(version, k)
            IN  /\ (k \in DOMAIN memoryCache /\ k \notin DOMAIN memoryCache')
                      => \/ last'.op \in {"clear", "navigate"}
                         \/ CallOn(k) /\ ~MemLive(memoryCache, k, now)
                /\ (skey \in DOMAIN localStorage /\ skey \notin DOMAIN localStorage')
                      => \/ last'.op = "clear"
                         \/ CallOn(k) /\ ~StoredLive(localStorage, version, k, now)
                /\ CallOn(k)
                      => /\ \A k2 \in Keys \ {k} :
                              /\ EntryOf(memoryCache', k2) = EntryOf(memoryCache, k2)
                              /\ EntryOf(localStorage', StorageKey(version, k2))
                                    = EntryOf(localStorage, StorageKey(version, k2))
                         /\ MemLive(memoryCache, k, now)
                              => EntryOf(memoryCache', k) = EntryOf(memoryCache, k)
                         /\ StoredLive(localStorage, version, k, now)
                              => EntryOf(localStorage', skey) = EntryOf(localStorage, skey)]_vars

\* C15 witness: a getCachedData of another key has just run while an entry
\* that expired and was never read since is still in the Map and in
\* localStorage
C15_Witness ==
    /\ last.op \in {"hit", "miss"}
    /\ \E k \in Keys \ {last.key} :
          /\ k \in DOMAIN memoryCache
          /\ now - memoryCache[k].timestamp >= CACHE_TTL
          /\ StorageKey(version, k) \in DOMAIN localStorage
          /\ now - ParseStored(localStorage[StorageKey(version, k)]).timestamp >= CACHE_TTL

\* C16: a setCachedData(k, v2) that finds an entry of an earlier
\* setCachedData(k, v1) replaces it: the Map and localStorage have the same
\* keys as before, one entry for k each, with v2 and the time of the second
\* call, and getCachedData(k) returns v2.
C16_Overwrite ==
    [][\A k \in Keys :
         (last'.op = "done" /\ last'.key = k /\ k \in DOMAIN memoryCache
            /\ StorageKey(version, k) \in DOMAIN localStorage)
            => /\ DOMAIN memoryCache' = DOMAIN memoryCache
               /\ DOMAIN localStorage' = DOMAIN localStorage
               /\ memoryCache'[k] = MemEntry(last'.ret, now)
               /\ Persisted(localStorage', version, k, last'.ret, now)
               /\ getCachedData(k, memoryCache', localStorage', version, now,
                                FALSE, FALSE).ret = last'.ret
               /\ getCachedData(k, EmptyMap, localStorage', version, now,
                                FALSE, FALSE).ret = last'.ret]_vars

\* C16 witness: a value was stored over an entry with another value and an
\* earlier time, and each tier holds the one entry
C16_Witness ==
    /\ last.op = "done"
    /\ trace.before # <<>>
    /\ trace.before[1].data # last.ret
    /\ trace.before[1].timestamp < now
    /\ DOMAIN memoryCache = {last.key}
    /\ memoryCache[last.key] = MemEntry(last.ret, now)
    /\ Prefixed(localStorage) = {StorageKey(version, last.key)}
    /\ Persisted(localStorage, version, last.key, last.ret, now)

\* C17: keys are used as they are and the entries of different keys are
\* independent: a load call on k1, and a load of k1 that stores or fails,
\* leave what the Map and localStorage hold for every other key k2 unchanged;
\* and a load call on k2 is served only from an entry that a setCachedData on
\* k2 itself wrote, with the value and time of that call.
C17_KeysIndependent ==
    [][\A k1 \in Keys : \A k2 \in Keys \ {k1} :
         /\ (last'.op \in {"hit", "miss", "done", "fail"} /\ last'.key = k1)
               => /\ EntryOf(memoryCache', k2) = EntryOf(memoryCache, k2)
                  /\ EntryOf(localStorage', StorageKey(version, k2))
                        = EntryOf(localStorage, StorageKey(version, k2))
         /\ (CallOn(k2) /\ last'.src # "none")
               => /\ SetLive(k2)
                  /\ last'.got = lastSet[k2].data
                  /\ memoryCache'[k2] = MemEntry(lastSet[k2].data, lastSet[k2].timestamp)]_vars

\* C17 witness: a load call was served the value stored under its own key
\* while both tiers hold, under the other key, another value stored at
\* another time
C17_Witness ==
    /\ last.op = "hit"
    /\ SetLive(last.key)
    /\ last.ret = lastSet[last.key].data
    /\ \E k1 \in Keys \ {last.key} :
          /\ SetLive(k1)
          /\ lastSet[k1].data # last.ret
          /\ lastSet[k1].timestamp # lastSet[last.key].timestamp
          /\ k1 \in DOMAIN memoryCache
          /\ memoryCache[k1] = MemEntry(lastSet[k1].data, lastSet[k1].timestamp)
          /\ Persisted(localStorage, version, k1, lastSet[k1].data, lastSet[k1].timestamp)

\* C18: with two pages on one localStorage, whose handlers interleave in
\* every way, the record of k is that of one setCachedData call as a whole:
\* while the last setCachedData(k) of either page is less than CACHE_TTL old
\* (and no clearCache came after it), a record of k in localStorage has the
\* value and the time of that call, never the value of one call with the
\* time of another.
C18_LastWriterWins ==
    \A k \in Keys :
        (SetLive(k) /\ StorageKey(version, k) \in DOMAIN localStorage)
            => Persisted(localStorage, version, k, lastSet[k].data, lastSet[k].timestamp)

\* C18 witness: the two pages have stored different values for the key at
\* different times, each has its own in its Map, and localStorage has the
\* value and the time of the later one
C18_Witness ==
    \E k \in Keys :
        /\ SetLive(k)
        /\ k \in DOMAIN peer.setters
        /\ peer.setters[k] \in {<<1, 2>>, <<2, 1>>}
        /\ k \in DOMAIN memoryCache
        /\ k \in DOMAIN peer.mem
        /\ memoryCache[k].data # peer.mem[k].data
        /\ memoryCache[k].timestamp # peer.mem[k].timestamp
        /\ Persisted(localStorage, version, k, lastSet[k].data, lastSet[k].timestamp)
        /\ MemEntry(lastSet[k].data, lastSet[k].timestamp) \in {memoryCache[k], peer.mem[k]}

\* a suspended load l returns to its caller in this step
Returns(l) ==
    /\ CopiesIn(l, inflight') < CopiesIn(l, inflight)
    /\ last'.op \in {"done", "fail"}
    /\ last'.key = l.key

\* C19: when every transport call settles in the end, every suspended load
\* returns: either loads like l keep returning, or from some time on none is
\* suspended.  And the loader has no timeout and no cancellation: a
\* suspended load ends only by returning after its transport call settled;
\* the passing of time ends none and touches neither tier; and between its
\* call and its return the only steps that change a tier are other load
\* calls, other loads storing, and clearCache.
C19_Termination ==
    /\ \A l \in LiveLoads :
          \/ <>[](~BagIn(l, inflight))
          \/ []<><<Returns(l)>>_vars
    /\ [][/\ \A l \in LiveLoads :
               CopiesIn(l, inflight') < CopiesIn(l, inflight) => Returns(l)
          /\ last'.op = "tick"
               => UNCHANGED <<inflight, memoryCache, localStorage>>
          /\ <<memoryCache, localStorage>>' # <<memoryCache, localStorage>>
               => last'.op \in {"hit", "miss", "done", "clear"}]_vars

\* C19 witness: a load that was suspended for CACHE_TTL or longer has
\* returned its value
C19_Witness ==
    /\ last.op = "done"
    /\ now - trace.started >= CACHE_TTL
    /\ memoryCache[last.key] = MemEntry(last.ret, now)

\* C20: at most one lightbox keydown handler is registered on the document,
\* after any number of loadScreenshots calls.
C20_OneKeydownHandler == Len(lightbox.closures) <= 1

\* C21: after an Escape key press on the lab page no experiment modal is
\* displayed, whatever keys were pressed since a modal was opened.
C21_EscapeCloses == lab.pressed = "Escape" => lab.modals = <<>>

\* C22: the index of every gallery stays in 0..n-1; while its lightbox is
\* shown ArrowRight moves it to the next image, from n-1 to 0, and ArrowLeft
\* to the previous one, from 0 to n-1; ArrowRight followed by ArrowLeft
\* leaves it where it was; and a key pressed while its lightbox is hidden
\* changes nothing of it (with every lightbox hidden, nothing at all).
C22_LightboxWraps ==
    [][/\ \A k \in 1..Len(lightbox'.closures) :
            lightbox'.closures[k].index \in 0..(lightbox'.closures[k].images - 1)
       /\ \A k \in 1..Len(lightbox.closures) :
            LET c == lightbox.closures[k]
            IN  /\ (lightbox'.pressed = "ArrowRight" /\ ~c.hidden)
                      => lightbox'.closures[k].index = (c.index + 1) % c.images
                /\ (lightbox'.pressed = "ArrowLeft" /\ ~c.hidden)
                      => lightbox'.closures[k].index = (c.index + c.images - 1) % c.images
                /\ (lightbox'.pressed \in Keyboard /\ c.hidden)
                      => lightbox'.closures[k] = c
                /\ Dispatch(Dispatch(lightbox, "ArrowRight", 1), "ArrowLeft", 1).closures[k].index
                      = c.index
       /\ (lightbox'.pressed \in Keyboard /\ ~LightboxOpen(lightbox)
              /\ \A k \in 1..Len(lightbox.closures) : lightbox.closures[k].hidden)
            => lightbox' = [lightbox EXCEPT !.pressed = lightbox'.pressed]]_vars

\* C22 witness: with the lightbox shown on the last of several images,
\* ArrowRight has brought the first image back
C22_Witness ==
    /\ lightbox.pressed = "ArrowRight"
    /\ \E k \in 1..Len(lightbox.closures) :
          /\ lightbox.closures[k].id = lightbox.view
          /\ ~lightbox.closures[k].hidden
          /\ lightbox.closures[k].images >= 2
          /\ lightbox.closures[k].index = 0
          /\ lightbox.closures[k].src = <<0>>
          /\ lightbox.counter = <<1, lightbox.closures[k].images>>

\* C23: in one session at most one request is sent to /api/ping, however
\* often the button is clicked; the click that sends it finds the session
\* unmarked and leaves it marked; and once a request was sent, failed or
\* not, no click of the session sends another.
C23_PingOnce ==
    [][/\ ping'.sent <= 1
       /\ ping'.sent > ping.sent
            => (~Truthy(ping.tracked) /\ Truthy(ping'.tracked))
       /\ (ping.sent = 1 /\ ping'.clicks > ping.clicks)
            => (ping'.sent = 1 /\ ping'.failed = ping.failed
                  /\ ping'.outcome \in {"skipped", "threw"})]_vars

\* C23 witness: the one request of the session failed, and a later click on
\* the button has sent nothing
C23_Witness ==
    /\ ping.sent = 1
    /\ ping.failed = 1
    /\ ping.clicks >= 2
    /\ ping.outcome = "skipped"

\* the setCachedData calls on k of the last CACHE_TTL that wrote the entry e
SetsOf(k, e) ==
    {h \in history.sets : h.key = k /\ h.data = e.data /\ h.timestamp = e.timestamp}

\* C24: every value getCachedData(k) returns is the value of a
\* setCachedData(k) call made less than CACHE_TTL before, and the Map then
\* holds it with the time of that call, also when it was restored from
\* localStorage; and every Map entry and localStorage record that is less
\* than CACHE_TTL old has the value and the time of one such call.
C24_StalenessBound ==
    [][\A k \in Keys :
         /\ (CallOn(k) /\ last'.src # "none")
               => /\ k \in DOMAIN memoryCache'
                  /\ memoryCache'[k].data = last'.got
                  /\ now - memoryCache'[k].timestamp < CACHE_TTL
                  /\ SetsOf(k, memoryCache'[k]) # {}
         /\ MemLive(memoryCache', k, now')
               => \E h \in history'.sets :
                     h.key = k /\ MemEntry(h.data, h.timestamp) = memoryCache'[k]
         /\ StoredLive(localStorage', version, k, now')
               => \E h \in history'.sets :
                     Persisted(localStorage', version, k, h.data, h.timestamp)]_vars

\* C24 witness: after a navigation a load call was served a record from
\* localStorage that is older than the last setCachedData of the key (whose
\* write localStorage had rejected), and the Map holds it with the time at
\* which it was stored, which is not the time of the read
C24_Witness ==
    /\ last.op = "hit"
    /\ last.src = "storage"
    /\ SetLive(last.key)
    /\ lastSet[last.key].data # last.ret
    /\ memoryCache[last.key].data = last.ret
    /\ memoryCache[last.key].timestamp < lastSet[last.key].timestamp
    /\ memoryCache[last.key].timestamp < now

\* what a response body can be decoded to: the text, or the JSON value
Decodings ==
    {TextValue(body) : body \in Bodies}
        \cup {JSONParse(body).value : body \in {b \in Bodies : JSONParse(b).ok}}

\* v was decoded from a response to a load of k
DecodedFor(k, v) == v \in Decodings /\ [key |-> k, value |-> v] \in history.decoded

C26_TierCoherence ==
    \A k \in DOMAIN memoryCache :
        Persisted(localStorage, version, k, memoryCache[k].data, memoryCache[k].timestamp)

\* the other loader
OtherMode(mode) == IF mode = "json" THEN "markdown" ELSE "json"

\* localStorage holds for k a record younger than CACHE_TTL that the loader
\* of the mode stored, with a truthy value: for loadJSON a value of a body
\* that is JSON (a structure, or a number other than 0), for loadMarkdown a
\* non-empty text
LiveRecordOf(k, mode) ==
    /\ k \in DOMAIN history.storedBy
    /\ history.storedBy[k] = mode
    /\ StorageKey(version, k) \in DOMAIN localStorage
    /\ now - localStorage[StorageKey(version, k)].timestamp < CACHE_TTL
    /\ Truthy(ParseStored(localStorage[StorageKey(version, k)]).data)

\* C27: the cache is keyed by the path and not by the loader.  A call of
\* one loader on a path for which the other loader stored a truthy value
\* less than CACHE_TTL ago is a hit: it returns the stored value as it is, a
\* text stored by loadMarkdown as the text (a string, not decoded as JSON)
\* and a value stored by loadJSON as that value (no string), and it calls no
\* transport.
C27_KeyedByPath ==
    [][\A k \in FaultKeys, mode \in Modes :
          (/\ history'.called = mode
           /\ last'.key = k
           /\ LiveRecordOf(k, OtherMode(mode)))
          => /\ last'.op = "hit"
             /\ last'.ret = ParseStored(localStorage[StorageKey(version, k)]).data
             /\ (mode = "json") = (last'.ret.type = "string")
             /\ (mode = "json") => last'.ret.text \in ModeBodies
             /\ inflight' = inflight
             /\ localStorage' = localStorage]_vars

\* loadJSON has returned from the cache, without a transport call, the text
\* that loadMarkdown stored
C27_Witness ==
    /\ history.called = "json"
    /\ last.op = "hit"
    /\ last.ret = TextValue(<<"{", "}">>)
    /\ last.key \in DOMAIN history.storedBy
    /\ history.storedBy[last.key] = "markdown"
    /\ inflight = EmptyBag

\* C28: clearCache removes from localStorage every key that starts with
\* 'portfolio_', those of records written under another CACHE_VERSION
\* included, and every other key stays with its value.
C28_ClearScope ==
    [][last'.op = "clear"
          => /\ DOMAIN localStorage' \subseteq DOMAIN localStorage
             /\ \A k \in DOMAIN localStorage :
                    IF StartsWith(k, PREFIX)
                    THEN k \notin DOMAIN localStorage'
                    ELSE k \in DOMAIN localStorage' /\ localStorage'[k] = localStorage[k]]_vars

\* clearCache has removed a record of the current version and a record
\* that is not of the current version, and the key of the other script is
\* still there with its value
C28_Witness ==
    /\ last.op = "clear"
    /\ \E k \in history.removed : StartsWith(k, PREFIX \o version \o <<"_">>)
    /\ \E k \in history.removed : ~StartsWith(k, PREFIX \o version \o <<"_">>)
    /\ ForeignKey \in DOMAIN localStorage
    /\ localStorage[ForeignKey] = [data |-> <<"d">>, timestamp |-> 0]

\* C29: clearCache does not cancel the suspended loads.  It leaves them
\* suspended, and each of them that obtains a value afterwards stores it in
\* the Map and in localStorage with the time of its return, although it
\* called fetch before the clearCache.
C29_ClearKeepsLoads ==
    [][/\ last'.op = "clear" => inflight' = inflight
       /\ (history.afterClear = "clean" /\ last'.op = "done")
            => /\ BagCardinality(inflight') = BagCardinality(inflight) - 1
               /\ last'.key \in DOMAIN memoryCache'
               /\ memoryCache'[last'.key] = [data |-> last'.ret, timestamp |-> now]
               /\ Persisted(localStorage', version, last'.key, last'.ret, now)]_vars

\* after a clearCache and with no load called since, a load call is served
\* from the cache with a value that a load suspended over the clearCache
\* stored
C29_Witness ==
    /\ history.afterClear = "clean"
    /\ last.op = "hit"
    /\ last.key \in history.survived
    /\ last.key \in DOMAIN memoryCache
    /\ last.ret = memoryCache[last.key].data

====
